---- MODULE Spec2Model ----
(***************************************************************************)
(* Model of the NEG controller (pkg/neg: Controller, its three work queues *)
(* and worker loops, the service reconciliation pass) and of the L4        *)
(* backend-service pool (pkg/backends: Backends.EnsureL4BackendService).   *)
(* Both live in src/pkg/backends/backends.go.                              *)
(***************************************************************************)
EXTENDS Integers, Sequences, FiniteSets, TLC

(***************************************************************************)
(* Bounds of the model.                                                    *)
(***************************************************************************)
\* number of Service keys the informers deliver events for
NumServices == 1
\* number of distinct endpoint-slice service keys
NumEndpointKeys == 1
\* number of node keys
NumNodes == 1
\* the limiter's failure count of a key is kept exactly up to this value;
\* a key that has failed more often counts as having failed this often
MaxFailures == 2

ServiceKeys == 1..NumServices
EndpointKeys == 1..NumEndpointKeys
NodeKeys == 1..NumNodes

\* keys are positive numbers; 0 stands for "no key"

Queues == {"service", "endpoint", "node"}

KeysOf(q) ==
    CASE q = "service" -> ServiceKeys
      [] q = "endpoint" -> EndpointKeys
      [] q = "node" -> NodeKeys

Range(s) == {s[i] : i \in DOMAIN s}

Count(item, s) == Cardinality({i \in DOMAIN s : s[i] = item})

(***************************************************************************)
(* The work queue (workqueue.RateLimitingInterface).  A queue is a record  *)
(*   queue: the keys waiting for Get, in order                             *)
(*   dirty: the keys that need a pass                                      *)
(*   processing: the keys handed out by Get and not yet Done               *)
(*   shuttingDown                                                          *)
(* The rate limiter's per-key failure counts and the delayed adds of       *)
(* AddAfter are the variables failures and waiting.                        *)
(***************************************************************************)
EmptyQueue ==
    [queue |-> <<>>, dirty |-> {}, processing |-> {}, shuttingDown |-> FALSE]

\* Add(item): ignored when shutting down or already dirty; a key being
\* processed is only marked dirty, any other key is appended to the queue.
QAdd(s, item) ==
    IF s.shuttingDown \/ item \in s.dirty
    THEN s
    ELSE IF item \in s.processing
         THEN [s EXCEPT !.dirty = @ \cup {item}]
         ELSE [s EXCEPT !.dirty = @ \cup {item}, !.queue = Append(@, item)]

\* Get() blocks while the queue is empty and not shutting down.
QGetBlocks(s) == s.queue = <<>> /\ ~s.shuttingDown

\* Get() reports shutdown when the queue is empty and shutting down.
QGetQuit(s) == s.queue = <<>> /\ s.shuttingDown

\* Get() hands out the head of the queue.
QGet(s) ==
    [s EXCEPT !.queue = Tail(@),
              !.processing = @ \cup {Head(s.queue)},
              !.dirty = @ \ {Head(s.queue)}]

\* Done(item): the key leaves processing and, when it was marked dirty in
\* the meantime, goes back to the queue.
QDone(s, item) ==
    IF item \in s.dirty
    THEN [s EXCEPT !.processing = @ \ {item}, !.queue = Append(@, item)]
    ELSE [s EXCEPT !.processing = @ \ {item}]

\* ShutDown()
QShutDown(s) == [s EXCEPT !.shuttingDown = TRUE]

\* rateLimiter.When(item): counts one more failure of the key
LimiterWhen(f, item) == [f EXCEPT ![item] = IF @ < MaxFailures THEN @ + 1 ELSE @]

\* rateLimiter.Forget(item)
LimiterForget(f, item) == [f EXCEPT ![item] = 0]

\* AddAfter(item, delay) with a positive delay: dropped when shutting down,
\* else kept by the delaying queue until the delay has elapsed.
QAddAfter(w, s, item) == IF s.shuttingDown THEN w ELSE w \cup {item}

(***************************************************************************)
(* Services, ingresses and the desired-state resolver of processService.   *)
(* A Service is a record of the fields the resolver reads:                 *)
(*   Type, IPFamilyPolicy, IPFamilies, Ports, Selector (non-empty or not), *)
(*   NEG: the exposure annotation [state, Ingress, ExposedPorts], state    *)
(*        "absent", "invalid" (does not parse) or "found"; ExposedPorts    *)
(*        maps an exposed port to its custom name, "" for none             *)
(*   WantsILB, WantsNetLB, RBS, V2Finalizer, LoadBalancerClass, OnlyLocal  *)
(* A PortInfoMap is a function from a port key to a PortInfo               *)
(* [NegName, EpType, ReadinessGate]; port key 0 is the VM-IP entry.        *)
(***************************************************************************)
EmptyMap == << >>

\* namer.NEG(namespace, name, port)
NegName(key, port) == [custom |-> "", svc |-> key, port |-> port]

CustomNegName(name) == [custom |-> name, svc |-> 0, port |-> 0]

\* l4Namer.L4Backend(namespace, name)
L4NegName(key) == [custom |-> "l4", svc |-> key, port |-> 0]

\* negtypes.NewPortInfoMap(namespace, name, svcPortTuples, namer, readinessGate, customNames, networkInfo)
NewPortInfoMap(key, ports, readinessGate, customNames) ==
    [p \in ports |->
        [NegName |-> IF p \in DOMAIN customNames
                     THEN CustomNegName(customNames[p])
                     ELSE NegName(key, p),
         EpType |-> "GCE_VM_IP_PORT",
         ReadinessGate |-> readinessGate]]

\* negtypes.NewPortInfoMapForVMIPNEG(namespace, name, l4Namer, onlyLocal, networkInfo)
NewPortInfoMapForVMIPNEG(key) ==
    [p \in {0} |->
        [NegName |-> L4NegName(key), EpType |-> "GCE_VM_IP", ReadinessGate |-> FALSE]]

\* PortInfoMap.Merge fails when both maps hold a key with different names or endpoint types
MergeCollides(p1, p2) ==
    \E k \in DOMAIN p1 \cap DOMAIN p2 :
        \/ p1[k].NegName # p2[k].NegName
        \/ p1[k].EpType # p2[k].EpType

\* PortInfoMap.Merge: the union; the readiness gate is on when one of the two has it on
Merged(p1, p2) ==
    [k \in DOMAIN p1 \cup DOMAIN p2 |->
        IF k \in DOMAIN p2
        THEN [p2[k] EXCEPT !.ReadinessGate =
                 @ \/ (k \in DOMAIN p1 /\ p1[k].ReadinessGate)]
        ELSE p1[k]]

\* the result of a resolver step: an error ("" for nil) and the map so far
Ok(m) == [err |-> "", map |-> m]

Fail(e) == [err |-> e, map |-> EmptyMap]

Merge(p1, p2, e) == IF MergeCollides(p1, p2) THEN Fail(e) ELSE Ok(Merged(p1, p2))

\* utils.IsGLBCIngress / IsGCEIngress / IsGCEL7ILBIngress / IsGCEL7XLBRegionalIngress, by ingress class
IsGCEIngress(ing) == ing.class = "gce"

IsGCEL7ILBIngress(ing) == ing.class = "gce-internal"

IsGCEL7XLBRegionalIngress(ing) == ing.class = "gce-regional-external"

IsGLBCIngress(ing) ==
    IsGCEIngress(ing) \/ IsGCEL7ILBIngress(ing) \/ IsGCEL7XLBRegionalIngress(ing)

isSingleStackIPv6Service(service) ==
    IF service.IPFamilyPolicy # "nil" /\ service.IPFamilyPolicy # "SingleStack"
    THEN FALSE
    ELSE service.IPFamilies = <<"IPv6">>

\* one scanIngress pass of mergeDefaultBackendServicePortInfoMap
scanIngress(cfg, ings, portInfoMap, class) ==
    IF \E ing \in ings : ing.class = class /\ ~ing.defaultBackend
    THEN Merge(portInfoMap,
               NewPortInfoMap(cfg.defaultBackendService, {cfg.defaultBackendPort}, FALSE, EmptyMap),
               "merge")
    ELSE Ok(portInfoMap)

mergeDefaultBackendServicePortInfoMap(cfg, key, service, ings, portInfoMap) ==
    IF cfg.defaultBackendService # key
    THEN Ok(portInfoMap)
    ELSE LET r1 == scanIngress(cfg, ings, portInfoMap, "gce-internal")
             r2 == IF r1.err # "" \/ ~cfg.enableIngressRegionalExternal
                   THEN r1
                   ELSE scanIngress(cfg, ings, r1.map, "gce-regional-external")
         IN  IF r2.err # "" THEN r2
             ELSE IF service.NEG.state = "invalid" THEN Fail("annotation")
             ELSE IF service.NEG.state = "absent" THEN r2
             ELSE IF ~service.NEG.Ingress THEN r2
             ELSE scanIngress(cfg, ings, r2.map, "gce")

\* gatherPortMappingUsedByIngress(getIngressServicesFromStore(...), service):
\* the ports of the service that a GLBC ingress references
gatherPortMappingUsedByIngress(ings, key, service) ==
    {p \in service.Ports :
        \E ing \in ings : IsGLBCIngress(ing) /\ <<key, p>> \in ing.backends}

mergeIngressPortInfo(key, service, ings, portInfoMap) ==
    IF service.NEG.state = "invalid" THEN Fail("annotation")
    ELSE IF service.NEG.state = "absent" THEN Ok(portInfoMap)
    ELSE IF service.NEG.Ingress
         THEN Merge(portInfoMap,
                    NewPortInfoMap(key, gatherPortMappingUsedByIngress(ings, key, service), TRUE, EmptyMap),
                    "merge")
         ELSE Ok(portInfoMap)

\* the custom names negServicePorts returns: the exposed ports given a name
CustomNames(neg) ==
    [p \in {x \in DOMAIN neg.ExposedPorts : neg.ExposedPorts[x] # ""} |-> neg.ExposedPorts[p]]

\* a mergeStandaloneNEGsPortInfo that merges custom-named ports of a service
\* enabled for ingress
mergeStandaloneNEGsPortInfo_CustomWithIngress(key, service, portInfoMap) ==
    IF service.NEG.state = "invalid" THEN Fail("annotation")
    ELSE IF service.NEG.state = "absent" THEN Ok(portInfoMap)
    ELSE IF DOMAIN service.NEG.ExposedPorts = {} THEN Ok(portInfoMap)
    ELSE IF ~(DOMAIN service.NEG.ExposedPorts \subseteq service.Ports) THEN Fail("annotation")
    ELSE Merge(portInfoMap,
               NewPortInfoMap(key, DOMAIN service.NEG.ExposedPorts, TRUE, CustomNames(service.NEG)),
               "merge")

mergeStandaloneNEGsPortInfo(key, service, portInfoMap) ==
    IF service.NEG.state = "invalid" THEN Fail("annotation")
    ELSE IF service.NEG.state = "absent" THEN Ok(portInfoMap)
    ELSE IF DOMAIN service.NEG.ExposedPorts = {} THEN Ok(portInfoMap)
    \* negServicePorts: an exposed port that the service does not declare is an error
    ELSE IF ~(DOMAIN service.NEG.ExposedPorts \subseteq service.Ports) THEN Fail("annotation")
    ELSE IF service.NEG.Ingress /\ DOMAIN CustomNames(service.NEG) # {}
         THEN Fail("invalidConfig")
    ELSE Merge(portInfoMap,
               NewPortInfoMap(key, DOMAIN service.NEG.ExposedPorts, TRUE, CustomNames(service.NEG)),
               "merge")

\* a getCSMPortInfoMap that does not look at the skip-list
getCSMPortInfoMap_NoSkipList(cfg, key, service) ==
    IF ~service.Selector THEN EmptyMap
    ELSE NewPortInfoMap(key, service.Ports, FALSE, EmptyMap)

getCSMPortInfoMap(cfg, key, service) ==
    IF ~service.Selector THEN EmptyMap
    ELSE IF key \in cfg.asmServiceNEGSkipNamespaces THEN EmptyMap
    ELSE NewPortInfoMap(key, service.Ports, FALSE, EmptyMap)

\* a mergeVmIpNEGsPortInfo that does not wait for the v2 finalizer
mergeVmIpNEGsPortInfo_NoFinalizer(key, service, portInfoMap, networkIsDefault) ==
    LET needsNEGForNetLB == service.WantsNetLB /\ ~networkIsDefault /\ service.RBS
    IN  IF ~service.WantsILB /\ ~needsNEGForNetLB THEN Ok(portInfoMap)
        ELSE IF service.LoadBalancerClass THEN Ok(portInfoMap)
        ELSE Merge(portInfoMap, NewPortInfoMapForVMIPNEG(key), "merge")

mergeVmIpNEGsPortInfo(key, service, portInfoMap, networkIsDefault) ==
    LET needsNEGForNetLB == service.WantsNetLB /\ ~networkIsDefault /\ service.RBS
    IN  IF ~service.WantsILB /\ ~needsNEGForNetLB THEN Ok(portInfoMap)
        ELSE IF service.WantsILB /\ ~service.V2Finalizer THEN Ok(portInfoMap)
        ELSE IF service.LoadBalancerClass THEN Ok(portInfoMap)
        ELSE Merge(portInfoMap, NewPortInfoMapForVMIPNEG(key), "merge")

\* a resolver step of processService applied to the result r of the steps
\* before it: an error of theirs is returned, else the next merge is made
afterDefaultBackend(r, key, service, ings) ==
    IF r.err # "" THEN r ELSE mergeIngressPortInfo(key, service, ings, r.map)

afterIngress(r, key, service) ==
    IF r.err # "" THEN r ELSE mergeStandaloneNEGsPortInfo(key, service, r.map)

afterStandalone(r, cfg, key, service) ==
    IF r.err # "" \/ ~cfg.enableASM THEN r
    ELSE Merge(r.map, getCSMPortInfoMap(cfg, key, service), "merge")

afterCSM(r, cfg, key, service, networkIsDefault) ==
    IF r.err # "" \/ ~cfg.runL4 THEN r
    ELSE mergeVmIpNEGsPortInfo(key, service, r.map, networkIsDefault)

\* the resolver part of processService, from the single-stack IPv6 check to
\* the last merge; networkErr is whether networkResolver.ServiceNetwork fails
ResolvePortInfoMap(cfg, key, service, ings, networkErr, networkIsDefault) ==
    IF service.Type # "LoadBalancer" /\ isSingleStackIPv6Service(service) THEN Fail("ipv6")
    ELSE IF networkErr THEN Fail("network")
    ELSE afterCSM(
             afterStandalone(
                 afterIngress(
                     afterDefaultBackend(
                         mergeDefaultBackendServicePortInfoMap(cfg, key, service, ings, EmptyMap),
                         key, service, ings),
                     key, service),
                 cfg, key, service),
             cfg, key, service, networkIsDefault)

(***************************************************************************)
(* The controller as NewController builds it, and the cluster objects the  *)
(* informers deliver.                                                      *)
(***************************************************************************)
\* the constructor arguments the resolver reads
Cfg ==
    [defaultBackendService |-> 0,
     defaultBackendPort |-> 80,
     enableASM |-> TRUE,
     asmServiceNEGSkipNamespaces |-> {},
     runL4 |-> TRUE,
     enableIngressRegionalExternal |-> FALSE]

\* what zoneGetter.ListZones returns
Zones == <<"zone-a">>

NoAnnotation == [state |-> "absent", Ingress |-> FALSE, ExposedPorts |-> EmptyMap]

Exposure(ingress, exposed) == [state |-> "found", Ingress |-> ingress, ExposedPorts |-> exposed]

PlainService ==
    [Type |-> "ClusterIP", IPFamilyPolicy |-> "nil", IPFamilies |-> <<"IPv4">>,
     Ports |-> {80, 443}, Selector |-> FALSE, NEG |-> NoAnnotation,
     WantsILB |-> FALSE, WantsNetLB |-> FALSE, RBS |-> FALSE, V2Finalizer |-> FALSE,
     LoadBalancerClass |-> FALSE, OnlyLocal |-> FALSE]

\* standalone exposure of port 80, of ports 80 and 443
Expose80 == [PlainService EXCEPT !.NEG = Exposure(FALSE, (80 :> ""))]

ExposeBoth == [PlainService EXCEPT !.NEG = Exposure(FALSE, (80 :> "") @@ (443 :> ""))]

\* a custom name together with ingress mode: invalid configuration
CustomWithIngress == [PlainService EXCEPT !.NEG = Exposure(TRUE, (80 :> "c"))]

\* a custom name for port 80 and a selector: the mesh-wide entry of port 80
\* carries the generated name, the merge collides
CustomWithSelector ==
    [PlainService EXCEPT !.NEG = Exposure(FALSE, (80 :> "c")), !.Selector = TRUE]

BadAnnotation ==
    [PlainService EXCEPT !.NEG = [state |-> "invalid", Ingress |-> FALSE, ExposedPorts |-> EmptyMap]]

IPv6Only == [Expose80 EXCEPT !.IPFamilyPolicy = "SingleStack", !.IPFamilies = <<"IPv6">>]

\* the Service objects the informer delivers for a key
ServiceObjects(key) ==
    IF key = 1
    THEN {PlainService, Expose80, ExposeBoth, CustomWithIngress, CustomWithSelector,
          BadAnnotation, IPv6Only}
    ELSE {PlainService, Expose80}

VARIABLES
    wq,           \* wq[q]: the work queue q
    failures,     \* failures[q][k]: consecutive failures the limiter of q counts for k
    waiting,      \* waiting[q]: keys whose AddAfter delay has not elapsed
    pc,           \* pc[q]: position of the worker goroutine of queue q
    cur,          \* cur[q]: the key the worker of q got from Get
    runPc,        \* position of Controller.Run
    stopCh,       \* TRUE once stopCh is closed
    hasSynced,    \* what c.hasSynced() returns
    err,          \* the error of the running service pass, "" for nil
    pmap,         \* the PortInfoMap the running service pass resolved
    passLog,      \* the manager and patch calls the running service pass made, in order
    events,       \* the warning events the recorder got for the running service pass
    store,        \* store[k]: serviceLister's object of key k, {} when absent
    negStatus,    \* negStatus[k]: the NEG status annotation of service k, {} when absent
    syncers,      \* the live syncers <<service key, port key>> of the manager
    lastPass      \* lastPass[k]: outcome of the last completed service pass of k

qvars == <<wq, failures, waiting>>

wvars == <<pc, cur>>

rvars == <<runPc, stopCh, hasSynced>>

pvars == <<err, pmap, passLog>>

kvars == <<store, negStatus>>

cvars == <<qvars, wvars, rvars, pvars, kvars, syncers, lastPass, events>>

\* Backends (pkg/backends) and the remote backend service it reconciles
VARIABLES
    useConnectionTrackingPolicy, \* Backends.useConnectionTrackingPolicy
    remote,       \* the remote backend service of the name, {} when there is none
    writes,       \* writes the remote API has accepted; the source of fingerprints
    otherWrites,  \* how many of them came from other writers
    ensureCalls,  \* EnsureL4BackendService calls started
    bsPc,         \* position of the running EnsureL4BackendService call
    bsArgs,       \* its arguments
    bsFetched,    \* its local bs: what the first GetBackendService returned
    bsCalls,      \* the remote calls it made, in order
    bsRet,        \* what it returned
    bsStart       \* history: the previous call's arguments and result, the remote
                  \* object and the other clients' writes when the call started,
                  \* and whether no other client wrote since the previous call
                  \* started

bsvars == <<useConnectionTrackingPolicy, remote, writes, otherWrites, ensureCalls,
            bsPc, bsArgs, bsFetched, bsCalls, bsRet, bsStart>>

\* the two objects and the flag backendSvcEqual is applied to, and its results
VARIABLES
    eqA,          \* argument a
    eqB,          \* argument b
    eqFlag,       \* argument compareConnectionTracking
    eqRes         \* the results for (a, b), (b, a), (a, a) and (b, b)

eqvars == <<eqA, eqB, eqFlag, eqRes>>

\* Backends.Get, Delete and Health and the remote objects they read
VARIABLES
    poolRemote,   \* the remote backend service of the name, {} when there is none
    poolPc,       \* position of the running Get, Delete or Health call
    poolOp,       \* the call and its arguments
    poolLocals,   \* its local variables
    poolLog,      \* the remote calls it made, in order
    poolRet       \* what it returned

poolvars == <<poolRemote, poolPc, poolOp, poolLocals, poolLog, poolRet>>

\* time, the two time trackers of the controller and IsHealthy
VARIABLES
    now,              \* time.Now(), in units of which Hour is a multiple
    syncTracker,      \* Controller.syncTracker: the time it tracked last
    nodeSyncTracker,  \* Controller.nodeSyncTracker: the time it tracked last
    isHealthy         \* what IsHealthy returned when it was called since the
                      \* clock and syncTracker last changed, "none" if it was not

tvars == <<now, syncTracker, nodeSyncTracker, isHealthy>>

\* the garbage-collection goroutine Run starts, and what it collects
VARIABLES
    gcPc,         \* position of the goroutine
    gcWake,       \* the time its sleep or its wait for the next period ends
    sweeps,       \* history: when Run started the goroutine, when sweeps started and returned
    negs          \* the remote network endpoint groups, by name

gvars == <<gcPc, gcWake, sweeps, negs>>

VARIABLES
    resIn,        \* the arguments of the resolver: controller configuration, key,
                  \* Service object, the network resolver's answer
    resOut        \* what the resolver returned for them, called or not

resvars == <<resIn, resOut>>

\* the ingress informer
VARIABLES
    Ingresses,    \* the content of ingressLister
    ingressEvent, \* history: the last notification the ingress handlers received
    passedSince   \* history: the service keys Get has handed out since then

ingvars == <<Ingresses, ingressEvent, passedSince>>

vars == <<cvars, bsvars, eqvars, poolvars, tvars, gvars, resvars, ingvars>>

NoPass == [result |-> "none", ports |-> {}]

(***************************************************************************)
(* State after NewController: empty queues, no goroutine running, no       *)
(* syncer, an empty lister cache.                                          *)
(***************************************************************************)
InitController ==
    /\ wq = [q \in Queues |-> EmptyQueue]
    /\ failures = [q \in Queues |-> [k \in KeysOf(q) |-> 0]]
    /\ waiting = [q \in Queues |-> {}]
    /\ pc = [q \in Queues |-> "notstarted"]
    /\ cur = [q \in Queues |-> 0]
    /\ runPc = "poll"
    /\ stopCh = FALSE
    /\ hasSynced = FALSE
    /\ err = ""
    /\ pmap = EmptyMap
    /\ passLog = <<>>
    /\ events = <<>>
    /\ store = [k \in ServiceKeys |-> {}]
    /\ negStatus = [k \in ServiceKeys |-> {}]
    /\ syncers = {}
    /\ lastPass = [k \in ServiceKeys |-> NoPass]

\* no EnsureL4BackendService call made yet, no remote backend service
InitBackends(use) ==
    /\ useConnectionTrackingPolicy = use
    /\ remote = {}
    /\ writes = 0
    /\ otherWrites = 0
    /\ ensureCalls = 0
    /\ bsPc = "idle"
    /\ bsArgs = {}
    /\ bsFetched = {}
    /\ bsCalls = <<>>
    /\ bsRet = [obj |-> {}, err |-> ""]
    /\ bsStart = [args |-> {}, ret |-> [obj |-> {}, err |-> ""],
                  remote |-> {}, otherWrites |-> 0, quiet |-> FALSE]

\* backendSvcEqual not applied yet
InitEqual ==
    /\ eqA = {}
    /\ eqB = {}
    /\ eqFlag = FALSE
    /\ eqRes = [ab |-> TRUE, ba |-> TRUE, aa |-> TRUE, bb |-> TRUE]

\* no Get, Delete or Health call made yet; r is the remote backend service
InitPool(r) ==
    /\ poolRemote = r
    /\ poolPc = "idle"
    /\ poolOp = [op |-> "", version |-> "", scope |-> ""]
    /\ poolLocals = [be |-> {}, i |-> 0, ret |-> ""]
    /\ poolLog = <<>>
    /\ poolRet = [obj |-> {}, state |-> "", err |-> ""]

\* time.Hour in the units of now
Hour == 2

\* the zero time.Time, which lies more than an hour before the start
ZeroTime == 0 - (Hour + 1)

\* the controller as NewController leaves it at time 0: syncTracker is built
\* by utils.NewTimeTracker() and holds t0, nodeSyncTracker is left at its zero
\* value; IsHealthy not called yet
InitTime(t0) ==
    /\ now = 0
    /\ syncTracker = t0
    /\ nodeSyncTracker = ZeroTime
    /\ isHealthy = "none"

\* Run not called yet, no remote network endpoint group
InitGC ==
    /\ gcPc = "notstarted"
    /\ gcWake = 0
    /\ sweeps = <<>>
    /\ negs = {}

\* the resolver not called
NotResolved == [called |-> FALSE, err |-> "", map |-> EmptyMap]

InitResolver ==
    /\ resIn = [cfg |-> Cfg, key |-> 1, service |-> PlainService,
                networkErr |-> FALSE, networkIsDefault |-> TRUE]
    /\ resOut = NotResolved

\* no ingress in the cluster, no notification delivered
NoIngressEvent == [kind |-> "none", old |-> {}, cur |-> {}]

InitIngress ==
    /\ Ingresses = {}
    /\ ingressEvent = NoIngressEvent
    /\ passedSince = {}

Init ==
    /\ InitController
    /\ InitBackends(FALSE)
    /\ InitEqual
    /\ InitPool({})
    /\ InitTime(0)
    /\ InitGC
    /\ InitResolver
    /\ InitIngress

(***************************************************************************)
(* Environment: the informers' caches sync, the stop channel is closed,    *)
(* the informers call the event handlers.                                  *)
(***************************************************************************)
CachesSynced ==
    /\ ~hasSynced
    /\ hasSynced' = TRUE
    /\ UNCHANGED <<qvars, wvars, runPc, stopCh, pvars, kvars, syncers, lastPass>>

CloseStopCh ==
    /\ ~stopCh
    /\ stopCh' = TRUE
    /\ UNCHANGED <<qvars, wvars, runPc, hasSynced, pvars, kvars, syncers, lastPass>>

\* enqueueService(obj): serviceQueue.Add(key)
enqueueService(key) ==
    wq' = [wq EXCEPT !["service"] = QAdd(@, key)]

\* the service informer's Add, Update and Delete handlers: the lister holds
\* the new object (none after a delete) and the key is enqueued
ServiceEvent(key, objs) ==
    /\ store' = [store EXCEPT ![key] = objs]
    /\ negStatus' = [negStatus EXCEPT ![key] = IF objs = {} THEN {} ELSE @]
    /\ enqueueService(key)
    /\ UNCHANGED <<failures, waiting, wvars, rvars, pvars, syncers, lastPass>>

\* enqueueEndpointSlice(obj): endpointQueue.Add(key)
enqueueEndpointSlice(key) ==
    /\ wq' = [wq EXCEPT !["endpoint"] = QAdd(@, key)]
    /\ UNCHANGED <<failures, waiting, wvars, rvars, pvars, kvars, syncers, lastPass>>

\* enqueueNode(obj): nodeQueue.Add(key)
enqueueNode(key) ==
    /\ wq' = [wq EXCEPT !["node"] = QAdd(@, key)]
    /\ UNCHANGED <<failures, waiting, wvars, rvars, pvars, kvars, syncers, lastPass>>

\* the delaying queue's waiting loop delivers a delayed add
DelayElapsed(q, k) ==
    /\ k \in waiting[q]
    /\ ~wq[q].shuttingDown
    /\ waiting' = [waiting EXCEPT ![q] = @ \ {k}]
    /\ wq' = [wq EXCEPT ![q] = QAdd(@, k)]
    /\ UNCHANGED <<failures, wvars, rvars, pvars, kvars, syncers, lastPass>>

(***************************************************************************)
(* Controller.Run: wait.PollUntil(hasSynced, stopCh) returns when the      *)
(* caches have synced or stopCh is closed; then the worker goroutines are  *)
(* started, Run blocks on stopCh and the deferred stop() runs.             *)
(***************************************************************************)
\* a Run that starts the workers without waiting for the caches
RunStart_NoPoll ==
    /\ runPc = "poll"
    /\ runPc' = "wait"
    /\ pc' = [q \in Queues |-> "until"]
    /\ UNCHANGED <<qvars, cur, stopCh, hasSynced, pvars, kvars, syncers, lastPass>>

RunStart ==
    /\ runPc = "poll"
    /\ hasSynced \/ stopCh
    /\ runPc' = "wait"
    /\ pc' = [q \in Queues |-> "until"]
    /\ UNCHANGED <<qvars, cur, stopCh, hasSynced, pvars, kvars, syncers, lastPass>>

RunStopped ==
    /\ runPc = "wait"
    /\ stopCh
    /\ runPc' = "stop_service"
    /\ UNCHANGED <<qvars, wvars, stopCh, hasSynced, pvars, kvars, syncers, lastPass>>

\* stop(): serviceQueue.ShutDown(), endpointQueue.ShutDown(),
\* nodeQueue.ShutDown(), manager.ShutDown(), one call per step
StopQueue(at, q, next) ==
    /\ runPc = at
    /\ wq' = [wq EXCEPT ![q] = QShutDown(@)]
    /\ runPc' = next
    /\ UNCHANGED <<failures, waiting, wvars, stopCh, hasSynced, pvars, kvars, syncers, lastPass>>

\* manager.ShutDown() stops every live syncer
ManagerShutDown(s) == {}

stop ==
    \/ StopQueue("stop_service", "service", "stop_endpoint")
    \/ StopQueue("stop_endpoint", "endpoint", "stop_node")
    \/ StopQueue("stop_node", "node", "stop_manager")
    \/ /\ runPc = "stop_manager"
       /\ syncers' = ManagerShutDown(syncers)
       /\ runPc' = "returned"
       /\ UNCHANGED <<qvars, wvars, stopCh, hasSynced, pvars, kvars, lastPass>>

(***************************************************************************)
(* The worker goroutines.  wait.Until(worker, time.Second, stopCh) checks  *)
(* stopCh before it calls the worker.  A worker is                         *)
(*   for { func() { key, quit := Get(); if quit { return }; ... }() }      *)
(* so the return on quit leaves the closure and the loop calls Get again.  *)
(***************************************************************************)
WaitUntil(q) ==
    /\ pc[q] = "until"
    /\ pc' = [pc EXCEPT ![q] = IF stopCh THEN "returned" ELSE "get"]
    /\ UNCHANGED <<qvars, cur, rvars, pvars, kvars, syncers, lastPass>>

\* key, quit := queue.Get(); if quit { return }
WorkerGet(q) ==
    /\ pc[q] = "get"
    /\ ~QGetBlocks(wq[q])
    /\ IF QGetQuit(wq[q])
       THEN /\ pc' = [pc EXCEPT ![q] = "quit"]
            /\ UNCHANGED <<wq, cur>>
       ELSE /\ wq' = [wq EXCEPT ![q] = QGet(@)]
            /\ cur' = [cur EXCEPT ![q] = Head(wq[q].queue)]
            /\ pc' = [pc EXCEPT ![q] = "process"]
    /\ UNCHANGED <<failures, waiting, rvars, pvars, kvars, syncers, lastPass>>

\* the closure returned on quit: the for loop starts the next iteration
WorkerLoop(q) ==
    /\ pc[q] = "quit"
    /\ pc' = [pc EXCEPT ![q] = "get"]
    /\ UNCHANGED <<qvars, cur, rvars, pvars, kvars, syncers, lastPass>>

\* an endpointWorker that re-enqueues the key with AddRateLimited
endpointWorker_Requeues ==
    \/ WorkerGet("endpoint")
    \/ WorkerLoop("endpoint")
    \/ /\ pc["endpoint"] = "process"
       /\ failures' = [failures EXCEPT !["endpoint"] = LimiterWhen(@, cur["endpoint"])]
       /\ waiting' = [waiting EXCEPT !["endpoint"] =
                         QAddAfter(@, wq["endpoint"], cur["endpoint"])]
       /\ wq' = [wq EXCEPT !["endpoint"] = QDone(@, cur["endpoint"])]
       /\ cur' = [cur EXCEPT !["endpoint"] = 0]
       /\ pc' = [pc EXCEPT !["endpoint"] = "get"]
       /\ UNCHANGED <<rvars, pvars, kvars, syncers, lastPass>>

\* endpointWorker: processEndpoint(key) signals the syncers of the service
\* (manager.Sync), then endpointQueue.Done(key)
endpointWorker ==
    \/ WorkerGet("endpoint")
    \/ WorkerLoop("endpoint")
    \/ /\ pc["endpoint"] = "process"
       /\ wq' = [wq EXCEPT !["endpoint"] = QDone(@, cur["endpoint"])]
       /\ cur' = [cur EXCEPT !["endpoint"] = 0]
       /\ pc' = [pc EXCEPT !["endpoint"] = "get"]
       /\ UNCHANGED <<failures, waiting, rvars, pvars, kvars, syncers, lastPass>>

\* a nodeWorker whose pass stops every syncer
nodeWorker_StopsSyncers ==
    \/ WorkerGet("node")
    \/ WorkerLoop("node")
    \/ /\ pc["node"] = "process"
       /\ wq' = [wq EXCEPT !["node"] = QDone(@, cur["node"])]
       /\ cur' = [cur EXCEPT !["node"] = 0]
       /\ pc' = [pc EXCEPT !["node"] = "get"]
       /\ syncers' = {}
       /\ UNCHANGED <<failures, waiting, rvars, pvars, kvars, lastPass>>

\* nodeWorker: processNode() signals the syncers (manager.SyncNodes), then
\* nodeQueue.Done(key)
nodeWorker ==
    \/ WorkerGet("node")
    \/ WorkerLoop("node")
    \/ /\ pc["node"] = "process"
       /\ wq' = [wq EXCEPT !["node"] = QDone(@, cur["node"])]
       /\ cur' = [cur EXCEPT !["node"] = 0]
       /\ pc' = [pc EXCEPT !["node"] = "get"]
       /\ UNCHANGED <<failures, waiting, rvars, pvars, kvars, syncers, lastPass>>

(***************************************************************************)
(* The syncer manager (negtypes.NegSyncerManager): the table of live       *)
(* syncers, one per <<service key, port key>>.                             *)
(***************************************************************************)
OwnedBy(s, key) == {x \in s : x[1] = key}

\* StopSyncer(namespace, name) stops and removes all syncers of the service
StopSyncer(s, key) == s \ OwnedBy(s, key)

\* the desired entries of the service that have no live syncer
MissingSyncers(s, key, portMap) == {<<key, p>> : p \in DOMAIN portMap} \ s

\* EnsureSyncers(namespace, name, portMap): the syncers of entries no longer
\* desired are stopped, `started` are the missing syncers that start
EnsureSyncers(s, key, portMap, started) ==
    (s \ {x \in OwnedBy(s, key) : x[2] \notin DOMAIN portMap}) \cup started

(***************************************************************************)
(* The service pass: serviceWorker, processService, handleErr.             *)
(***************************************************************************)
InPass == {"process", "syncAnn", "ensure", "rmAnn", "handleErr", "done"}

\* processService returns e: the deferred syncTracker.Track runs and
\* serviceWorker goes on to handleErr
Return(e, ports) ==
    /\ err' = e
    /\ pc' = [pc EXCEPT !["service"] = "handleErr"]
    /\ lastPass' = [lastPass EXCEPT ![cur["service"]] =
                       [result |-> IF e = "" THEN "ok" ELSE "failed", ports |-> ports]]

\* processService that leaves the syncers of a missing service alone
processServiceResolve_KeepDeleted ==
    /\ pc["service"] = "process"
    /\ \E networkErr \in BOOLEAN :
         LET key == cur["service"]
             service == CHOOSE o \in store[key] : TRUE
             r == ResolvePortInfoMap(Cfg, key, service, Ingresses, networkErr, TRUE)
         IN  IF store[key] = {}
             THEN /\ Return("", {})
                  /\ UNCHANGED <<pmap, passLog, syncers>>
             ELSE IF r.err # ""
             THEN /\ Return(r.err, {})
                  /\ UNCHANGED <<pmap, passLog, syncers>>
             ELSE IF DOMAIN r.map # {}
             THEN /\ pmap' = r.map
                  /\ pc' = [pc EXCEPT !["service"] = "syncAnn"]
                  /\ UNCHANGED <<err, passLog, syncers, lastPass>>
             ELSE /\ syncers' = StopSyncer(syncers, key)
                  /\ passLog' = Append(passLog, "StopSyncer")
                  /\ pc' = [pc EXCEPT !["service"] = "rmAnn"]
                  /\ UNCHANGED <<err, pmap, lastPass>>
    /\ UNCHANGED <<qvars, cur, rvars, kvars>>

\* processService that stops the syncers when a resolver step fails
processServiceResolve_StopOnError ==
    /\ pc["service"] = "process"
    /\ \E networkErr \in BOOLEAN :
         LET key == cur["service"]
             service == CHOOSE o \in store[key] : TRUE
             r == ResolvePortInfoMap(Cfg, key, service, Ingresses, networkErr, TRUE)
         IN  IF store[key] = {}
             THEN /\ syncers' = StopSyncer(syncers, key)
                  /\ passLog' = Append(passLog, "StopSyncer")
                  /\ Return("", {})
                  /\ UNCHANGED pmap
             ELSE IF r.err # ""
             THEN /\ syncers' = StopSyncer(syncers, key)
                  /\ passLog' = Append(passLog, "StopSyncer")
                  /\ Return(r.err, {})
                  /\ UNCHANGED pmap
             ELSE IF DOMAIN r.map # {}
             THEN /\ pmap' = r.map
                  /\ pc' = [pc EXCEPT !["service"] = "syncAnn"]
                  /\ UNCHANGED <<err, passLog, syncers, lastPass>>
             ELSE /\ syncers' = StopSyncer(syncers, key)
                  /\ passLog' = Append(passLog, "StopSyncer")
                  /\ pc' = [pc EXCEPT !["service"] = "rmAnn"]
                  /\ UNCHANGED <<err, pmap, lastPass>>
    /\ UNCHANGED <<qvars, cur, rvars, kvars>>

\* processService up to the resolved PortInfoMap: the key is looked up in
\* the lister (the informer's indexer, whose GetByKey returns no error); a
\* missing service has its syncers stopped; an error of a resolver step is
\* returned; an empty map has the syncers stopped
processServiceResolve ==
    /\ pc["service"] = "process"
    /\ \E networkErr \in BOOLEAN :
         LET key == cur["service"]
             service == CHOOSE o \in store[key] : TRUE
             r == ResolvePortInfoMap(Cfg, key, service, Ingresses, networkErr, TRUE)
         IN  IF store[key] = {}
             THEN /\ syncers' = StopSyncer(syncers, key)
                  /\ passLog' = Append(passLog, "StopSyncer")
                  /\ Return("", {})
                  /\ UNCHANGED pmap
             ELSE IF r.err # ""
             THEN /\ Return(r.err, {})
                  /\ UNCHANGED <<pmap, passLog, syncers>>
             ELSE IF DOMAIN r.map # {}
             THEN /\ pmap' = r.map
                  /\ pc' = [pc EXCEPT !["service"] = "syncAnn"]
                  /\ UNCHANGED <<err, passLog, syncers, lastPass>>
             ELSE /\ syncers' = StopSyncer(syncers, key)
                  /\ passLog' = Append(passLog, "StopSyncer")
                  /\ pc' = [pc EXCEPT !["service"] = "rmAnn"]
                  /\ UNCHANGED <<err, pmap, lastPass>>
    /\ UNCHANGED <<qvars, cur, rvars, kvars>>

\* annotations.NewNegStatus(zones, portMap.ToPortNegMap()).Marshal()
NegStatusOf(portMap) ==
    [zones |-> Zones, negs |-> [p \in DOMAIN portMap |-> portMap[p].NegName]]

\* a syncNegStatusAnnotation that patches a non-empty map's annotation without
\* comparing it with the existing one
syncNegStatusAnnotation_AlwaysPatch(key, portMap, zonesErr, patchErr) ==
    LET same == [err |-> "", status |-> negStatus[key], patch |-> FALSE]
        patched(new) == IF patchErr
                        THEN [err |-> "patch", status |-> negStatus[key], patch |-> TRUE]
                        ELSE [err |-> "", status |-> new, patch |-> TRUE]
    IN  IF zonesErr THEN [same EXCEPT !.err = "zones"]
        ELSE IF store[key] = {} THEN same
        ELSE IF DOMAIN portMap = {}
             THEN IF negStatus[key] # {} THEN patched({}) ELSE same
        ELSE patched({NegStatusOf(portMap)})

\* a syncNegStatusAnnotation that writes the status of an empty map instead of
\* removing the annotation
syncNegStatusAnnotation_WriteEmpty(key, portMap, zonesErr, patchErr) ==
    LET same == [err |-> "", status |-> negStatus[key], patch |-> FALSE]
        patched(new) == IF patchErr
                        THEN [err |-> "patch", status |-> negStatus[key], patch |-> TRUE]
                        ELSE [err |-> "", status |-> new, patch |-> TRUE]
    IN  IF zonesErr THEN [same EXCEPT !.err = "zones"]
        ELSE IF store[key] = {} THEN same
        ELSE IF negStatus[key] = {NegStatusOf(portMap)} THEN same
        ELSE patched({NegStatusOf(portMap)})

\* syncNegStatusAnnotation(namespace, name, portMap): the error it returns,
\* the annotation of the service afterwards and whether a patch was sent
syncNegStatusAnnotation(key, portMap, zonesErr, patchErr) ==
    LET same == [err |-> "", status |-> negStatus[key], patch |-> FALSE]
        patched(new) == IF patchErr
                        THEN [err |-> "patch", status |-> negStatus[key], patch |-> TRUE]
                        ELSE [err |-> "", status |-> new, patch |-> TRUE]
    IN  IF zonesErr THEN [same EXCEPT !.err = "zones"]
        ELSE IF store[key] = {} THEN same
        ELSE IF DOMAIN portMap = {}
             THEN IF negStatus[key] # {} THEN patched({}) ELSE same
        ELSE IF negStatus[key] = {NegStatusOf(portMap)} THEN same
        ELSE patched({NegStatusOf(portMap)})

\* what the pass log keeps of a syncNegStatusAnnotation call
LogSync(r) ==
    Append(passLog, IF r.err # "" THEN "SyncFailed"
                    ELSE IF r.patch THEN "Patch" ELSE "NoPatch")

\* processService going on to EnsureSyncers whatever syncNegStatusAnnotation returned
processServiceSyncAnnotation_IgnoreErr ==
    /\ pc["service"] = "syncAnn"
    /\ \E zonesErr \in BOOLEAN, patchErr \in BOOLEAN :
         LET key == cur["service"]
             r == syncNegStatusAnnotation(key, pmap, zonesErr, patchErr)
         IN  /\ negStatus' = [negStatus EXCEPT ![key] = r.status]
             /\ passLog' = LogSync(r)
             /\ pc' = [pc EXCEPT !["service"] = "ensure"]
             /\ UNCHANGED <<err, lastPass>>
    /\ UNCHANGED <<qvars, cur, rvars, pmap, store, syncers>>

\* processService, non-empty map: syncNegStatusAnnotation, whose error is returned
processServiceSyncAnnotation ==
    /\ pc["service"] = "syncAnn"
    /\ \E zonesErr \in BOOLEAN, patchErr \in BOOLEAN :
         LET key == cur["service"]
             r == syncNegStatusAnnotation(key, pmap, zonesErr, patchErr)
         IN  /\ negStatus' = [negStatus EXCEPT ![key] = r.status]
             /\ passLog' = LogSync(r)
             /\ IF r.err # ""
                THEN Return(r.err, {})
                ELSE /\ pc' = [pc EXCEPT !["service"] = "ensure"]
                     /\ UNCHANGED <<err, lastPass>>
    /\ UNCHANGED <<qvars, cur, rvars, pmap, store, syncers>>

\* processService, non-empty map: manager.EnsureSyncers, whose error is returned
processServiceEnsureSyncers ==
    /\ pc["service"] = "ensure"
    /\ LET key == cur["service"]
           missing == MissingSyncers(syncers, key, pmap)
       IN  \E started \in SUBSET missing :
             /\ syncers' = EnsureSyncers(syncers, key, pmap, started)
             /\ passLog' = Append(passLog, "EnsureSyncers")
             /\ Return(IF started = missing THEN "" ELSE "syncer", DOMAIN pmap)
    /\ UNCHANGED <<qvars, cur, rvars, pmap, kvars>>

\* processService, empty map: the status annotation is removed
processServiceRemoveAnnotation ==
    /\ pc["service"] = "rmAnn"
    /\ \E zonesErr \in BOOLEAN, patchErr \in BOOLEAN :
         LET key == cur["service"]
             r == syncNegStatusAnnotation(key, EmptyMap, zonesErr, patchErr)
         IN  /\ negStatus' = [negStatus EXCEPT ![key] = r.status]
             /\ passLog' = LogSync(r)
             /\ Return(r.err, {})
    /\ UNCHANGED <<qvars, cur, rvars, pmap, store, syncers>>

\* handleErr with serviceQueue.Done(key) called before the re-enqueue
handleErr_DoneFirst ==
    /\ pc["service"] = "handleErr"
    /\ LET key == cur["service"]
       IN  IF err = ""
           THEN /\ failures' = [failures EXCEPT !["service"] = LimiterForget(@, key)]
                /\ UNCHANGED waiting
           ELSE /\ failures' = [failures EXCEPT !["service"] = LimiterWhen(@, key)]
                /\ waiting' = [waiting EXCEPT !["service"] = QAddAfter(@, wq["service"], key)]
    /\ wq' = [wq EXCEPT !["service"] = QDone(@, cur["service"])]
    /\ pc' = [pc EXCEPT !["service"] = "done"]
    /\ UNCHANGED <<cur, rvars, pvars, kvars, syncers, lastPass>>

\* handleErr without the Forget of a successful pass
handleErr_NoForget ==
    /\ pc["service"] = "handleErr"
    /\ LET key == cur["service"]
       IN  IF err = ""
           THEN UNCHANGED <<failures, waiting>>
           ELSE /\ failures' = [failures EXCEPT !["service"] = LimiterWhen(@, key)]
                /\ waiting' = [waiting EXCEPT !["service"] = QAddAfter(@, wq["service"], key)]
    /\ pc' = [pc EXCEPT !["service"] = "done"]
    /\ UNCHANGED <<wq, cur, rvars, pvars, kvars, syncers, lastPass>>

\* handleErr that counts the failure and does not re-enqueue the key
handleErr_NoRequeue ==
    /\ pc["service"] = "handleErr"
    /\ LET key == cur["service"]
       IN  IF err = ""
           THEN /\ failures' = [failures EXCEPT !["service"] = LimiterForget(@, key)]
                /\ UNCHANGED waiting
           ELSE /\ failures' = [failures EXCEPT !["service"] = LimiterWhen(@, key)]
                /\ UNCHANGED waiting
    /\ pc' = [pc EXCEPT !["service"] = "done"]
    /\ UNCHANGED <<wq, cur, rvars, pvars, kvars, syncers, lastPass>>

\* handleErr(err, key): Forget on success, AddRateLimited on failure
handleErr ==
    /\ pc["service"] = "handleErr"
    /\ LET key == cur["service"]
       IN  IF err = ""
           THEN /\ failures' = [failures EXCEPT !["service"] = LimiterForget(@, key)]
                /\ UNCHANGED waiting
           ELSE /\ failures' = [failures EXCEPT !["service"] = LimiterWhen(@, key)]
                /\ waiting' = [waiting EXCEPT !["service"] = QAddAfter(@, wq["service"], key)]
    /\ pc' = [pc EXCEPT !["service"] = "done"]
    /\ UNCHANGED <<wq, cur, rvars, pvars, kvars, syncers, lastPass>>

\* the closure ends without serviceQueue.Done(key)
serviceWorkerDone_NoDone ==
    /\ pc["service"] = "done"
    /\ cur' = [cur EXCEPT !["service"] = 0]
    /\ pc' = [pc EXCEPT !["service"] = "get"]
    /\ err' = ""
    /\ pmap' = EmptyMap
    /\ passLog' = <<>>
    /\ UNCHANGED <<qvars, rvars, kvars, syncers, lastPass>>

\* the deferred serviceQueue.Done(key) ends the closure
serviceWorkerDone ==
    /\ pc["service"] = "done"
    /\ wq' = [wq EXCEPT !["service"] = QDone(@, cur["service"])]
    /\ cur' = [cur EXCEPT !["service"] = 0]
    /\ pc' = [pc EXCEPT !["service"] = "get"]
    /\ err' = ""
    /\ pmap' = EmptyMap
    /\ passLog' = <<>>
    /\ UNCHANGED <<failures, waiting, rvars, kvars, syncers, lastPass>>

serviceWorker ==
    \/ WorkerGet("service")
    \/ WorkerLoop("service")
    \/ processServiceResolve
    \/ processServiceSyncAnnotation
    \/ processServiceEnsureSyncers
    \/ processServiceRemoveAnnotation
    \/ handleErr
    \/ serviceWorkerDone

\* the deferred syncTracker.Track() of processService and processEndpoint and
\* the deferred nodeSyncTracker.Track() of processNode, in the step in which
\* the pass returns
ServicePassReturns ==
    /\ pc["service"] \in {"process", "syncAnn", "ensure", "rmAnn"}
    /\ pc'["service"] = "handleErr"

EndpointPassReturns == pc["endpoint"] = "process" /\ pc'["endpoint"] # "process"

NodePassReturns == pc["node"] = "process" /\ pc'["node"] # "process"

\* a processNode whose deferred call tracks syncTracker as well
Trackers_NodeAdvances ==
    /\ syncTracker' = IF ServicePassReturns \/ EndpointPassReturns \/ NodePassReturns
                      THEN now ELSE syncTracker
    /\ nodeSyncTracker' = IF NodePassReturns THEN now ELSE nodeSyncTracker
    /\ isHealthy' = IF syncTracker' # syncTracker THEN "none" ELSE isHealthy
    /\ UNCHANGED now

Trackers ==
    /\ syncTracker' = IF ServicePassReturns \/ EndpointPassReturns
                      THEN now ELSE syncTracker
    /\ nodeSyncTracker' = IF NodePassReturns THEN now ELSE nodeSyncTracker
    /\ isHealthy' = IF syncTracker' # syncTracker THEN "none" ELSE isHealthy
    /\ UNCHANGED now

\* mergeVmIpNEGsPortInfo is reached by the resolution of the service and
\* ignores it for the missing v2 finalizer
IgnoresILBService(key, service) ==
    /\ Cfg.runL4
    /\ ResolvePortInfoMap([Cfg EXCEPT !.runL4 = FALSE], key, service, Ingresses, FALSE, TRUE).err = ""
    /\ service.WantsILB
    /\ ~service.V2Finalizer

\* a handleErr that records no event
Recorder_NoEvent ==
    events' =
        IF pc["service"] = "process" /\ pc'["service"] # "process"
        THEN IF /\ ~(pc'["service"] = "handleErr" /\ err' = "network")
                /\ \E o \in store[cur["service"]] : IgnoresILBService(cur["service"], o)
             THEN Append(events, "ProcessServiceSkipped")
             ELSE events
        ELSE IF pc["service"] = "done" /\ pc'["service"] # "done"
        THEN <<>>
        ELSE events

\* c.recorder.Eventf, in the step of the code that calls it:
\* mergeVmIpNEGsPortInfo records ProcessServiceSkipped for an internal load
\* balancer without the v2 finalizer; handleErr records ProcessServiceFailed
\* when the pass returned an error and the lister has the service; the log
\* of the pass ends with the pass
Recorder ==
    events' =
        IF pc["service"] = "process" /\ pc'["service"] # "process"
        THEN IF /\ ~(pc'["service"] = "handleErr" /\ err' = "network")
                /\ \E o \in store[cur["service"]] : IgnoresILBService(cur["service"], o)
             THEN Append(events, "ProcessServiceSkipped")
             ELSE events
        ELSE IF pc["service"] = "handleErr" /\ pc'["service"] = "done"
        THEN IF err # "" /\ store[cur["service"]] # {}
             THEN Append(events, "ProcessServiceFailed")
             ELSE events
        ELSE IF pc["service"] = "done" /\ pc'["service"] # "done"
        THEN <<>>
        ELSE events

\* the period of the garbage collection (Controller.gcPeriod)
GcPeriod == 2

\* a goroutine that calls wait.Until without sleeping first
GcStart_NoSleep ==
    /\ gcPc' = "sleep"
    /\ gcWake' = now
    /\ sweeps' = <<[ev |-> "run", at |-> now, err |-> FALSE, deleted |-> {}]>>
    /\ UNCHANGED negs

\* Run starts the garbage-collection goroutine, which sleeps for gcPeriod
GcStart ==
    /\ gcPc' = "sleep"
    /\ gcWake' = now + GcPeriod
    /\ sweeps' = <<[ev |-> "run", at |-> now, err |-> FALSE, deleted |-> {}]>>
    /\ UNCHANGED negs

\* a step that is not one of the garbage-collection goroutine
GcIdle == UNCHANGED gvars

\* a step of the controller leaves the backend pool alone
Others == UNCHANGED <<bsvars, eqvars, poolvars, resvars, ingvars>>

\* a Service object that exposes no port and one that exposes one port
BasicObjects == {PlainService, Expose80}

(***************************************************************************)
(* The whole controller: the three queues and their workers, Run and stop, *)
(* with a service that exposes one port or is deleted.  The               *)
(* passes over the other kinds of Service object are followed in           *)
(* SpecService.                                                            *)
(***************************************************************************)
Next ==
    \/ CachesSynced /\ Trackers /\ Recorder /\ GcIdle /\ Others
    \/ CloseStopCh /\ Trackers /\ Recorder /\ GcIdle /\ Others
    \/ \E k \in ServiceKeys : \E objs \in {{}, {Expose80}} :
          ServiceEvent(k, objs) /\ Trackers /\ Recorder /\ GcIdle /\ Others
    \/ \E k \in EndpointKeys : enqueueEndpointSlice(k) /\ Trackers /\ Recorder /\ GcIdle /\ Others
    \/ \E k \in NodeKeys : enqueueNode(k) /\ Trackers /\ Recorder /\ GcIdle /\ Others
    \/ \E q \in Queues : \E k \in KeysOf(q) : DelayElapsed(q, k) /\ Trackers /\ Recorder /\ GcIdle /\ Others
    \/ RunStart /\ Trackers /\ Recorder /\ GcStart /\ Others
    \/ RunStopped /\ Trackers /\ Recorder /\ GcIdle /\ Others
    \/ stop /\ Trackers /\ Recorder /\ GcIdle /\ Others
    \/ \E q \in Queues : WaitUntil(q) /\ Trackers /\ Recorder /\ GcIdle /\ Others
    \/ serviceWorker /\ Trackers /\ Recorder /\ GcIdle /\ Others
    \/ endpointWorker /\ Trackers /\ Recorder /\ GcIdle /\ Others
    \/ nodeWorker /\ Trackers /\ Recorder /\ GcIdle /\ Others

Spec == Init /\ [][Next]_vars

(***************************************************************************)
(* The service worker alone (the endpoint and node workers share no state  *)
(* with it), with every kind of Service object.                            *)
(***************************************************************************)
NextService ==
    \/ CachesSynced /\ Trackers /\ Recorder /\ GcIdle /\ Others
    \/ CloseStopCh /\ Trackers /\ Recorder /\ GcIdle /\ Others
    \/ \E k \in ServiceKeys : \E objs \in {{}} \cup {{o} : o \in ServiceObjects(k)} :
          ServiceEvent(k, objs) /\ Trackers /\ Recorder /\ GcIdle /\ Others
    \/ \E k \in ServiceKeys : DelayElapsed("service", k) /\ Trackers /\ Recorder /\ GcIdle /\ Others
    \/ RunStart /\ Trackers /\ Recorder /\ GcStart /\ Others
    \/ RunStopped /\ Trackers /\ Recorder /\ GcIdle /\ Others
    \/ stop /\ Trackers /\ Recorder /\ GcIdle /\ Others
    \/ WaitUntil("service") /\ Trackers /\ Recorder /\ GcIdle /\ Others
    \/ serviceWorker /\ Trackers /\ Recorder /\ GcIdle /\ Others

SpecService == Init /\ [][NextService]_vars

(***************************************************************************)
(* Fairness: a started goroutine keeps running, a delay elapses.           *)
(***************************************************************************)
FairSpec ==
    /\ Spec
    /\ WF_vars(serviceWorker /\ Trackers /\ Recorder /\ GcIdle /\ Others)
    /\ WF_vars(endpointWorker /\ Trackers /\ Recorder /\ GcIdle /\ Others)
    /\ WF_vars(nodeWorker /\ Trackers /\ Recorder /\ GcIdle /\ Others)
    /\ \A q \in Queues : WF_vars(WaitUntil(q) /\ Trackers /\ Recorder /\ GcIdle /\ Others)
    /\ \A q \in Queues : \A k \in KeysOf(q) : WF_vars(DelayElapsed(q, k) /\ Trackers /\ Recorder /\ GcIdle /\ Others)

FairSpecService ==
    /\ SpecService
    /\ WF_vars(serviceWorker /\ Trackers /\ Recorder /\ GcIdle /\ Others)
    /\ WF_vars(WaitUntil("service") /\ Trackers /\ Recorder /\ GcIdle /\ Others)
    /\ \A k \in ServiceKeys : WF_vars(DelayElapsed("service", k) /\ Trackers /\ Recorder /\ GcIdle /\ Others)

(***************************************************************************)
(* Time: the service worker of a controller that is not stopped, the clock *)
(* and IsHealthy.  utils.NewTimeTracker is not part of the sources: the    *)
(* tracker it builds holds the time of its construction or the zero time.  *)
(***************************************************************************)
\* the time the model follows
MaxTime == 4

\* time passes, up to max
TickTo(max) ==
    /\ now < max
    /\ now' = now + 1
    /\ isHealthy' = "none"
    /\ UNCHANGED <<syncTracker, nodeSyncTracker>>

Tick == TickTo(MaxTime)

\* an IsHealthy whose bound is the time of the last node pass
IsHealthy_NodeTracker ==
    /\ isHealthy' = IF nodeSyncTracker < now - Hour THEN "error" ELSE "ok"
    /\ UNCHANGED <<now, syncTracker, nodeSyncTracker>>

\* IsHealthy: an error when syncTracker.Get() is before time.Now() - time.Hour
IsHealthy ==
    /\ isHealthy' = IF syncTracker < now - Hour THEN "error" ELSE "ok"
    /\ UNCHANGED <<now, syncTracker, nodeSyncTracker>>

InitHealth ==
    /\ InitController
    /\ InitBackends(FALSE)
    /\ InitEqual
    /\ InitPool({})
    /\ \E t0 \in {ZeroTime, 0} : InitTime(t0)
    /\ InitGC
    /\ InitResolver
    /\ InitIngress

NextHealth ==
    \/ CachesSynced /\ Trackers /\ Recorder /\ GcIdle /\ Others
    \/ \E k \in ServiceKeys : \E objs \in {{}} \cup {{o} : o \in BasicObjects} :
          ServiceEvent(k, objs) /\ Trackers /\ Recorder /\ GcIdle /\ Others
    \/ RunStart /\ Trackers /\ Recorder /\ GcStart /\ Others
    \/ WaitUntil("service") /\ Trackers /\ Recorder /\ GcIdle /\ Others
    \/ serviceWorker /\ Trackers /\ Recorder /\ GcIdle /\ Others
    \/ Tick /\ UNCHANGED <<cvars, gvars>> /\ Others
    \/ IsHealthy /\ UNCHANGED <<cvars, gvars>> /\ Others

SpecHealth == InitHealth /\ [][NextHealth]_vars

\* the three workers of a controller that is not stopped, the clock and
\* IsHealthy; the service is missing from the store or has an annotation
\* that does not parse
NextTrackers ==
    \/ CachesSynced /\ Trackers /\ Recorder /\ GcIdle /\ Others
    \/ \E k \in ServiceKeys : \E objs \in {{}, {BadAnnotation}} :
          ServiceEvent(k, objs) /\ Trackers /\ Recorder /\ GcIdle /\ Others
    \/ \E k \in EndpointKeys : enqueueEndpointSlice(k) /\ Trackers /\ Recorder /\ GcIdle /\ Others
    \/ \E k \in NodeKeys : enqueueNode(k) /\ Trackers /\ Recorder /\ GcIdle /\ Others
    \/ RunStart /\ Trackers /\ Recorder /\ GcStart /\ Others
    \/ \E q \in Queues : WaitUntil(q) /\ Trackers /\ Recorder /\ GcIdle /\ Others
    \/ serviceWorker /\ Trackers /\ Recorder /\ GcIdle /\ Others
    \/ endpointWorker /\ Trackers /\ Recorder /\ GcIdle /\ Others
    \/ nodeWorker /\ Trackers /\ Recorder /\ GcIdle /\ Others
    \/ Tick /\ UNCHANGED <<cvars, gvars>> /\ Others
    \/ IsHealthy /\ UNCHANGED <<cvars, gvars>> /\ Others

SpecTrackers == InitHealth /\ [][NextTrackers]_vars

(***************************************************************************)
(* Garbage collection.  Run starts a goroutine that sleeps for gcPeriod    *)
(* and then calls wait.Until(c.gc, c.gcPeriod, stopCh): Until returns when *)
(* stopCh is closed at its check, calls gc otherwise, and after gc has     *)
(* returned waits for the period or for stopCh.  A sweep starts when       *)
(* wait.Until finds stopCh open and calls gc.  The syncer manager and the  *)
(* syncers are not part of the sources; manager.GC and the syncers'        *)
(* creation of their network endpoint groups follow the specification of   *)
(* the collector.                                                          *)
(***************************************************************************)
\* an entry of the log of the collector
GcEvent(ev, e, deleted) == [ev |-> ev, at |-> now, err |-> e, deleted |-> deleted]

\* time.Sleep(c.gcPeriod) returns; it does not look at stopCh
gcSleep ==
    /\ gcPc = "sleep"
    /\ now >= gcWake
    /\ gcPc' = "until"
    /\ UNCHANGED <<gcWake, sweeps, negs>>

\* wait.Until checks stopCh, then calls c.gc
gcUntil ==
    /\ gcPc = "until"
    /\ IF stopCh
       THEN gcPc' = "returned" /\ UNCHANGED sweeps
       ELSE gcPc' = "sweep" /\ sweeps' = Append(sweeps, GcEvent("start", FALSE, {}))
    /\ UNCHANGED <<gcWake, negs>>

\* the name of the network endpoint group of a syncer
SyncerNegName(x) == IF x[2] = 0 THEN L4NegName(x[1]) ELSE NegName(x[1], x[2])

\* the namer's predicate: the name belongs to this cluster
BelongsToCluster(name) == name.custom \in {"", "l4"}

\* a network endpoint group of another owner
ForeignNeg == [custom |-> "foreign", svc |-> 1, port |-> 80]

\* the groups a sweep tries to delete: those of this cluster that no live
\* syncer references
GcCandidates(groups, live) ==
    {n \in groups : BelongsToCluster(n) /\ ~\E x \in live : SyncerNegName(x) = n}

\* a manager.GC that takes every group of the cluster for garbage
ManagerGC_IgnoresSyncers(groups, live, listErr, failed) ==
    IF listErr THEN groups ELSE groups \ ({n \in groups : BelongsToCluster(n)} \ failed)

\* manager.GC(): nothing is deleted when the listing fails; otherwise every
\* candidate is tried, `failed` are the deletions that fail
ManagerGC(groups, live, listErr, failed) ==
    IF listErr THEN groups ELSE groups \ (GcCandidates(groups, live) \ failed)

\* Controller.gc: manager.GC(), an error is logged; wait.Until then starts
\* the timer of the next period
gc ==
    /\ gcPc = "sweep"
    /\ \E listErr \in BOOLEAN : \E failed \in SUBSET GcCandidates(negs, syncers) :
          /\ negs' = ManagerGC(negs, syncers, listErr, failed)
          /\ sweeps' = Append(sweeps, GcEvent("end", listErr \/ failed # {}, negs \ negs'))
    /\ gcPc' = "wait"
    /\ gcWake' = now + GcPeriod

\* wait.Until between two sweeps: the period elapses or stopCh is closed
gcWait ==
    /\ gcPc = "wait"
    /\ \/ stopCh /\ gcPc' = "returned"
       \/ now >= gcWake /\ gcPc' = "until"
    /\ UNCHANGED <<gcWake, sweeps, negs>>

\* a live syncer creates its network endpoint group
syncerEnsuresNeg ==
    /\ \E x \in syncers : x[2] # 0 /\ negs' = negs \cup {SyncerNegName(x)}
    /\ UNCHANGED <<gcPc, gcWake, sweeps>>

\* a step of the collector or of a syncer leaves the controller alone
GcOnly == UNCHANGED <<cvars, tvars>> /\ Others

InitGCSpec ==
    /\ InitController
    /\ InitBackends(FALSE)
    /\ InitEqual
    /\ InitPool({})
    /\ InitTime(0)
    /\ gcPc = "notstarted"
    /\ gcWake = 0
    /\ sweeps = <<>>
    /\ negs \in {{}, {ForeignNeg}}
    /\ InitResolver
    /\ InitIngress

\* the collector and the stop signal: Run, stop and the clock
NextGC ==
    \/ CachesSynced /\ Trackers /\ Recorder /\ GcIdle /\ Others
    \/ CloseStopCh /\ Trackers /\ Recorder /\ GcIdle /\ Others
    \/ RunStart /\ Trackers /\ Recorder /\ GcStart /\ Others
    \/ RunStopped /\ Trackers /\ Recorder /\ GcIdle /\ Others
    \/ stop /\ Trackers /\ Recorder /\ GcIdle /\ Others
    \/ Tick /\ UNCHANGED <<cvars, gvars>> /\ Others
    \/ gcSleep /\ GcOnly
    \/ gcUntil /\ GcOnly
    \/ gc /\ GcOnly
    \/ gcWait /\ GcOnly

SpecGC == InitGCSpec /\ [][NextGC]_vars

\* the time the model follows the first sweep for
MaxSweepTime == 2

\* the collector, the service worker and the syncers up to the first sweep
NextOrphans ==
    \/ CachesSynced /\ Trackers /\ Recorder /\ GcIdle /\ Others
    \/ CloseStopCh /\ Trackers /\ Recorder /\ GcIdle /\ Others
    \/ \E k \in ServiceKeys : \E objs \in {{}} \cup {{o} : o \in BasicObjects} :
          ServiceEvent(k, objs) /\ Trackers /\ Recorder /\ GcIdle /\ Others
    \/ RunStart /\ Trackers /\ Recorder /\ GcStart /\ Others
    \/ WaitUntil("service") /\ Trackers /\ Recorder /\ GcIdle /\ Others
    \/ serviceWorker /\ Trackers /\ Recorder /\ GcIdle /\ Others
    \/ TickTo(MaxSweepTime) /\ UNCHANGED <<cvars, gvars>> /\ Others
    \/ gcSleep /\ GcOnly
    \/ gcUntil /\ GcOnly
    \/ gc /\ GcOnly
    \/ gcWait /\ GcOnly
    \/ syncerEnsuresNeg /\ GcOnly

SpecOrphans == InitGCSpec /\ [][NextOrphans]_vars


(***************************************************************************)
(* The start of the controller: Run, the three workers and the collector,  *)
(* with events for keys whose service is not in the store, up to the first *)
(* sweep.  Run is a goroutine that keeps running.                          *)
(***************************************************************************)
NextStart ==
    \/ CachesSynced /\ Trackers /\ Recorder /\ GcIdle /\ Others
    \/ CloseStopCh /\ Trackers /\ Recorder /\ GcIdle /\ Others
    \/ \E k \in ServiceKeys : ServiceEvent(k, {}) /\ Trackers /\ Recorder /\ GcIdle /\ Others
    \/ \E k \in EndpointKeys : enqueueEndpointSlice(k) /\ Trackers /\ Recorder /\ GcIdle /\ Others
    \/ \E k \in NodeKeys : enqueueNode(k) /\ Trackers /\ Recorder /\ GcIdle /\ Others
    \/ RunStart /\ Trackers /\ Recorder /\ GcStart /\ Others
    \/ RunStopped /\ Trackers /\ Recorder /\ GcIdle /\ Others
    \/ stop /\ Trackers /\ Recorder /\ GcIdle /\ Others
    \/ \E q \in Queues : WaitUntil(q) /\ Trackers /\ Recorder /\ GcIdle /\ Others
    \/ serviceWorker /\ Trackers /\ Recorder /\ GcIdle /\ Others
    \/ endpointWorker /\ Trackers /\ Recorder /\ GcIdle /\ Others
    \/ nodeWorker /\ Trackers /\ Recorder /\ GcIdle /\ Others
    \/ TickTo(MaxSweepTime) /\ UNCHANGED <<cvars, gvars>> /\ Others
    \/ gcSleep /\ GcOnly
    \/ gcUntil /\ GcOnly
    \/ gc /\ GcOnly
    \/ gcWait /\ GcOnly

SpecStart == Init /\ [][NextStart]_vars

FairSpecStart ==
    /\ SpecStart
    /\ WF_vars(RunStart /\ Trackers /\ Recorder /\ GcStart /\ Others)
    /\ WF_vars(RunStopped /\ Trackers /\ Recorder /\ GcIdle /\ Others)
    /\ WF_vars(stop /\ Trackers /\ Recorder /\ GcIdle /\ Others)

(***************************************************************************)
(* The resolver as a function of its arguments: the controller's           *)
(* configuration (mesh-wide mode, its skip-list, L4 mode), the Service     *)
(* object and the answer of the network resolver.  annotations.WantsL4ILB  *)
(* and WantsL4NetLB hold of a Service of type LoadBalancer only, and not   *)
(* both of the same one.                                                   *)
(***************************************************************************)
ResolverConfigs ==
    {[Cfg EXCEPT !.enableASM = asm, !.asmServiceNEGSkipNamespaces = skip, !.runL4 = l4] :
        asm \in BOOLEAN, skip \in {{}, ServiceKeys}, l4 \in BOOLEAN}

ResolverAnnotations ==
    {NoAnnotation,
     Exposure(FALSE, (80 :> "")),
     Exposure(FALSE, (80 :> "c")),
     Exposure(TRUE, (80 :> "")),
     Exposure(FALSE, (80 :> "") @@ (443 :> ""))}

ResolverServices ==
    {[PlainService EXCEPT
         !.Type = IF lb = "none" THEN "ClusterIP" ELSE "LoadBalancer",
         !.Selector = sel,
         !.NEG = neg,
         !.WantsILB = (lb = "ILB"),
         !.WantsNetLB = (lb = "NetLB"),
         !.RBS = rbs,
         !.V2Finalizer = fin,
         !.LoadBalancerClass = class] :
        lb \in {"none", "ILB", "NetLB"}, sel \in BOOLEAN, neg \in ResolverAnnotations,
        rbs \in BOOLEAN, fin \in BOOLEAN, class \in BOOLEAN}

ResolverInputs ==
    [cfg : ResolverConfigs, key : ServiceKeys, service : ResolverServices,
     networkErr : BOOLEAN, networkIsDefault : BOOLEAN]

\* the resolver part of processService is applied to the arguments
Resolve ==
    /\ ~resOut.called
    /\ LET r == ResolvePortInfoMap(resIn.cfg, resIn.key, resIn.service, Ingresses,
                                   resIn.networkErr, resIn.networkIsDefault)
       IN  resOut' = [called |-> TRUE, err |-> r.err, map |-> r.map]
    /\ UNCHANGED resIn

InitResolve ==
    /\ InitController
    /\ InitBackends(FALSE)
    /\ InitEqual
    /\ InitPool({})
    /\ InitTime(0)
    /\ InitGC
    /\ resIn \in ResolverInputs
    /\ resOut = NotResolved
    /\ InitIngress

NextResolve == Resolve /\ UNCHANGED <<cvars, bsvars, eqvars, poolvars, tvars, gvars, ingvars>>

SpecResolve == InitResolve /\ [][NextResolve]_vars

(***************************************************************************)
(* The ingress informer's handlers.  An Ingress is a record of its class,  *)
(* whether its spec names a default backend, and the service ports its     *)
(* backends reference (the spec default backend among them);               *)
(* utils.TraverseIngressBackends visits exactly these.  The cluster holds  *)
(* one Ingress at most.  The default-backend service and the service the   *)
(* Ingress references are both in the service lister, enabled for ingress. *)
(***************************************************************************)
\* the keys the service queue holds: the services and the default backend
IngressServiceKeys == ServiceKeys \cup {Cfg.defaultBackendService}

\* a Service whose annotation enables NEGs for ingress
IngressService == [PlainService EXCEPT !.NEG = Exposure(TRUE, EmptyMap)]

\* the Ingress objects the informer delivers
IngressObjects ==
    {ing \in [class : {"gce-internal", "nginx"},
              defaultBackend : BOOLEAN,
              backends : SUBSET {<<1, 80>>}] :
        ing.defaultBackend => ing.backends # {}}

\* gatherIngressServiceKeys(ing): the keys of the services the backends name
gatherIngressServiceKeys(ings) == {b[1] : b \in UNION {ing.backends : ing \in ings}}

\* the orders in which a loop over a set of keys can visit them
Orders(keys) == {o \in [1..Cardinality(keys) -> keys] : Range(o) = keys}

\* enqueueService(key) for each key of a list
RECURSIVE enqueueServices(_, _)
enqueueServices(s, keys) ==
    IF keys = <<>> THEN s ELSE enqueueServices(QAdd(s, Head(keys)), Tail(keys))

\* enqueueIngressServices(ing): the referenced services, then the default
\* backend when the spec names none
enqueueIngressServices(ing) ==
    \E order \in Orders(gatherIngressServiceKeys({ing})) :
        wq' = [wq EXCEPT !["service"] =
                  IF ~ing.defaultBackend
                  THEN QAdd(enqueueServices(wq["service"], order), Cfg.defaultBackendService)
                  ELSE enqueueServices(wq["service"], order)]

\* what a notification leaves of the history
IngressNotified(kind, oldIngs, curIngs) ==
    /\ Ingresses' = curIngs
    /\ ingressEvent' = [kind |-> kind, old |-> oldIngs, cur |-> curIngs]
    /\ passedSince' = {}
    /\ UNCHANGED <<failures, waiting, wvars, rvars, pvars, kvars, syncers, lastPass>>

\* AddFunc of the ingress informer
IngressAdd(addIng) ==
    /\ Ingresses = {}
    /\ IF ~IsGLBCIngress(addIng) THEN UNCHANGED wq ELSE enqueueIngressServices(addIng)
    /\ IngressNotified("add", {}, {addIng})

\* DeleteFunc of the ingress informer
IngressDelete(delIng) ==
    /\ Ingresses = {delIng}
    /\ IF ~IsGLBCIngress(delIng) THEN UNCHANGED wq ELSE enqueueIngressServices(delIng)
    /\ IngressNotified("delete", {delIng}, {})

\* UpdateFunc of the ingress informer
IngressUpdate(oldIng, curIng) ==
    /\ Ingresses = {oldIng}
    /\ IF ~IsGLBCIngress(curIng) /\ ~IsGLBCIngress(oldIng)
       THEN UNCHANGED wq
       ELSE \E keys \in Orders(gatherIngressServiceKeys({oldIng, curIng})) :
               wq' = [wq EXCEPT !["service"] = enqueueServices(@, keys)]
    /\ IngressNotified("update", {oldIng}, {curIng})

\* the keys Get hands out, noted in the step that hands them out
NotesPasses ==
    /\ passedSince' = IF pc["service"] = "get" /\ pc'["service"] = "process"
                      THEN passedSince \cup {cur'["service"]}
                      ELSE passedSince
    /\ UNCHANGED <<Ingresses, ingressEvent>>

\* a step of the controller leaves the backend pool and the resolver alone
PoolIdle == UNCHANGED <<bsvars, eqvars, poolvars, resvars>>

\* the controller with both services in its lister before it starts
InitIngresses ==
    /\ wq = [q \in Queues |-> EmptyQueue]
    /\ failures = [q \in Queues |->
                      [k \in IF q = "service" THEN IngressServiceKeys ELSE KeysOf(q) |-> 0]]
    /\ waiting = [q \in Queues |-> {}]
    /\ pc = [q \in Queues |-> "notstarted"]
    /\ cur = [q \in Queues |-> 0]
    /\ runPc = "poll"
    /\ stopCh = FALSE
    /\ hasSynced = FALSE
    /\ err = ""
    /\ pmap = EmptyMap
    /\ passLog = <<>>
    /\ events = <<>>
    /\ store = [k \in IngressServiceKeys |-> {IngressService}]
    /\ negStatus = [k \in IngressServiceKeys |-> {}]
    /\ syncers = {}
    /\ lastPass = [k \in IngressServiceKeys |-> NoPass]
    /\ InitBackends(FALSE)
    /\ InitEqual
    /\ InitPool({})
    /\ InitTime(0)
    /\ InitGC
    /\ InitResolver
    /\ InitIngress

NextIngresses ==
    \/ CachesSynced /\ Trackers /\ Recorder /\ GcIdle /\ Others
    \/ RunStart /\ Trackers /\ Recorder /\ GcStart /\ Others
    \/ WaitUntil("service") /\ Trackers /\ Recorder /\ GcIdle /\ Others
    \/ \E ing \in IngressObjects :
          IngressAdd(ing) /\ Trackers /\ Recorder /\ GcIdle /\ PoolIdle
    \/ \E ing \in IngressObjects :
          IngressDelete(ing) /\ Trackers /\ Recorder /\ GcIdle /\ PoolIdle
    \/ \E oldIng \in IngressObjects : \E curIng \in IngressObjects :
          IngressUpdate(oldIng, curIng) /\ Trackers /\ Recorder /\ GcIdle /\ PoolIdle
    \/ serviceWorker /\ Trackers /\ Recorder /\ GcIdle /\ PoolIdle /\ NotesPasses

SpecIngresses == InitIngresses /\ [][NextIngresses]_vars

\* the service worker keeps running
FairSpecIngresses ==
    /\ SpecIngresses
    /\ WF_vars(serviceWorker /\ Trackers /\ Recorder /\ GcIdle /\ PoolIdle /\ NotesPasses)

(***************************************************************************)
(* Backends.EnsureL4BackendService and the remote backend service API.     *)
(* A nil pointer is the empty set, a non-nil one a singleton.  The remote  *)
(* API (composite.GetBackendService, CreateBackendService,                 *)
(* UpdateBackendService) is not part of the sources and is modelled from   *)
(* its contract: a write is accepted or fails, every accepted write gives  *)
(* the object a new fingerprint, an update carrying another fingerprint    *)
(* than the object's is refused.                                           *)
(***************************************************************************)
\* calls of EnsureL4BackendService the model follows
MaxEnsureCalls == 2

\* writes of other clients of the remote API the model follows
MaxOtherWrites == 2

DefaultConnectionDrainingTimeoutSeconds == 30

StrongAffinityPolicy ==
    [TrackingMode |-> "PER_SESSION", EnableStrongAffinity |-> TRUE, IdleTimeoutSec |-> 60]

\* the argument lists of EnsureL4BackendService
EnsureArgs ==
    [name : {"bs"},
     hcLink : {"hc"},
     protocol : {"TCP", "UDP"},
     sessionAffinity : {"None", "ClientIP"},
     scheme : {"INTERNAL"},
     namespacedName : {"ns/svc"},
     networkIsDefault : BOOLEAN,
     networkURL : {"net"},
     connectionTrackingPolicy : {{}, {StrongAffinityPolicy}}]

\* utils.TranslateAffinityType
TranslateAffinityType(affinityType) ==
    CASE affinityType = "ClientIP" -> "CLIENT_IP"
      [] affinityType = "None" -> "NONE"
      [] OTHER -> "NONE"

\* utils.MakeL4LBServiceDescription
MakeL4LBServiceDescription(svcName) == [serviceName |-> svcName]

\* utils.EqualStringSets on two slices
EqualStringSets(x, y) == Range(x) = Range(y)

\* the object EnsureL4BackendService builds from its arguments
expectedBS(args, useCTP) ==
    [Name |-> args.name,
     Protocol |-> args.protocol,
     Description |-> MakeL4LBServiceDescription(args.namespacedName),
     HealthChecks |-> <<args.hcLink>>,
     SessionAffinity |-> TranslateAffinityType(args.sessionAffinity),
     LoadBalancingScheme |-> args.scheme,
     ConnectionTrackingPolicy |-> IF useCTP THEN args.connectionTrackingPolicy ELSE {},
     Network |-> IF ~args.networkIsDefault THEN args.networkURL ELSE "",
     ConnectionDraining |->
         IF args.protocol = "TCP"
         THEN {DefaultConnectionDrainingTimeoutSeconds}
         ELSE {0},
     Backends |-> <<>>,
     Fingerprint |-> 0]

connectionTrackingPolicyEqual(a, b) ==
    IF a = {} \/ b = {}
    THEN a = b
    ELSE LET x == CHOOSE v \in a : TRUE
             y == CHOOSE v \in b : TRUE
         IN  /\ x.TrackingMode = y.TrackingMode
             /\ x.EnableStrongAffinity = y.EnableStrongAffinity
             /\ x.IdleTimeoutSec = y.IdleTimeoutSec

\* an equality that compares the health checks as lists
backendSvcEqual_OrderedHealthChecks(a, b, compareConnectionTracking) ==
    /\ a.Protocol = b.Protocol
    /\ a.Description = b.Description
    /\ a.SessionAffinity = b.SessionAffinity
    /\ a.LoadBalancingScheme = b.LoadBalancingScheme
    /\ a.HealthChecks = b.HealthChecks
    /\ a.Network = b.Network
    /\ (compareConnectionTracking =>
            connectionTrackingPolicyEqual(a.ConnectionTrackingPolicy,
                                          b.ConnectionTrackingPolicy))

\* an equality that also compares the connection-draining timeout
backendSvcEqual_WithDraining(a, b, compareConnectionTracking) ==
    /\ a.Protocol = b.Protocol
    /\ a.Description = b.Description
    /\ a.SessionAffinity = b.SessionAffinity
    /\ a.LoadBalancingScheme = b.LoadBalancingScheme
    /\ EqualStringSets(a.HealthChecks, b.HealthChecks)
    /\ a.Network = b.Network
    /\ a.ConnectionDraining = b.ConnectionDraining
    /\ (compareConnectionTracking =>
            connectionTrackingPolicyEqual(a.ConnectionTrackingPolicy,
                                          b.ConnectionTrackingPolicy))

backendSvcEqual(a, b, compareConnectionTracking) ==
    LET svcsEqual ==
            /\ a.Protocol = b.Protocol
            /\ a.Description = b.Description
            /\ a.SessionAffinity = b.SessionAffinity
            /\ a.LoadBalancingScheme = b.LoadBalancingScheme
            /\ EqualStringSets(a.HealthChecks, b.HealthChecks)
            /\ a.Network = b.Network
    IN  IF compareConnectionTracking
        THEN svcsEqual /\ connectionTrackingPolicyEqual(a.ConnectionTrackingPolicy,
                                                        b.ConnectionTrackingPolicy)
        ELSE svcsEqual

\* an update object that does not carry the backends that were read
updateBS_NoBackends(args, useCTP, bs) ==
    LET e == expectedBS(args, useCTP)
        keep == /\ bs.ConnectionDraining # {}
                /\ (CHOOSE t \in bs.ConnectionDraining : TRUE) > 0
                /\ args.protocol = "TCP"
    IN  [e EXCEPT !.ConnectionDraining = IF keep THEN bs.ConnectionDraining ELSE @,
                  !.Fingerprint = bs.Fingerprint]

\* an update object that always carries the timeout of the expected object
updateBS_DefaultTimeout(args, useCTP, bs) ==
    [expectedBS(args, useCTP) EXCEPT !.Fingerprint = bs.Fingerprint,
                                     !.Backends = bs.Backends]

\* an update object that does not carry the fingerprint that was read
updateBS_NoFingerprint(args, useCTP, bs) ==
    LET e == expectedBS(args, useCTP)
        keep == /\ bs.ConnectionDraining # {}
                /\ (CHOOSE t \in bs.ConnectionDraining : TRUE) > 0
                /\ args.protocol = "TCP"
    IN  [e EXCEPT !.ConnectionDraining = IF keep THEN bs.ConnectionDraining ELSE @,
                  !.Backends = bs.Backends]

\* the object the update of EnsureL4BackendService submits, given the fetched bs
updateBS(args, useCTP, bs) ==
    LET e == expectedBS(args, useCTP)
        keep == /\ bs.ConnectionDraining # {}
                /\ (CHOOSE t \in bs.ConnectionDraining : TRUE) > 0
                /\ args.protocol = "TCP"
    IN  [e EXCEPT !.ConnectionDraining = IF keep THEN bs.ConnectionDraining ELSE @,
                  !.Fingerprint = bs.Fingerprint,
                  !.Backends = bs.Backends]

\* one remote call as EnsureL4BackendService saw it
Call(op, sent, got, e) == [op |-> op, sent |-> sent, got |-> got, err |-> e]

\* composite.GetBackendService
GetBackendService(r, fail) ==
    IF fail THEN Call("Get", {}, {}, "remote")
    ELSE IF r = {} THEN Call("Get", {}, {}, "notfound")
    ELSE Call("Get", {}, r, "")

\* the remote object after an accepted write of obj, the n-th accepted write
Stored(obj, n) == {[obj EXCEPT !.Fingerprint = n]}

EnsureReturn(obj, e, call) ==
    /\ bsRet' = [obj |-> obj, err |-> e]
    /\ bsCalls' = IF call = {} THEN bsCalls ELSE Append(bsCalls, CHOOSE c \in call : TRUE)
    /\ bsPc' = "returned"

\* the call starts; composite.CreateKey may fail
EnsureStart ==
    /\ bsPc \in {"idle", "returned"}
    /\ ensureCalls < MaxEnsureCalls
    /\ ensureCalls' = ensureCalls + 1
    /\ \E args \in EnsureArgs : \E keyErr \in BOOLEAN :
          /\ bsArgs' = {args}
          /\ bsFetched' = {}
          /\ IF keyErr
             THEN /\ bsRet' = [obj |-> {}, err |-> "key"]
                  /\ bsPc' = "returned"
             ELSE /\ bsRet' = [obj |-> {}, err |-> ""]
                  /\ bsPc' = "get"
          /\ bsCalls' = <<>>
    /\ bsStart' = [args |-> bsArgs, ret |-> bsRet, remote |-> remote,
                   otherWrites |-> otherWrites,
                   quiet |-> otherWrites = bsStart.otherWrites]
    /\ UNCHANGED <<useConnectionTrackingPolicy, remote, writes, otherWrites>>

\* a fetch that sends every object it found to the update, equal or not
EnsureGet_AlwaysUpdate ==
    /\ bsPc = "get"
    /\ \E fail \in BOOLEAN :
          LET c == GetBackendService(remote, fail)
          IN  IF c.err # "" /\ c.err # "notfound"
              THEN EnsureReturn({}, c.err, {c}) /\ UNCHANGED bsFetched
              ELSE /\ bsFetched' = c.got
                   /\ bsPc' = IF c.got = {} THEN "create" ELSE "update"
                   /\ bsCalls' = Append(bsCalls, c)
                   /\ UNCHANGED bsRet
    /\ UNCHANGED <<useConnectionTrackingPolicy, bsStart, remote, writes, otherWrites, ensureCalls, bsArgs>>

\* GetBackendService, then the comparison with the expected object
EnsureGet ==
    /\ bsPc = "get"
    /\ \E fail \in BOOLEAN :
          LET c == GetBackendService(remote, fail)
              args == CHOOSE a \in bsArgs : TRUE
          IN  IF c.err # "" /\ c.err # "notfound"
              THEN EnsureReturn({}, c.err, {c}) /\ UNCHANGED bsFetched
              ELSE /\ bsFetched' = c.got
                   /\ IF c.got = {}
                      THEN /\ bsPc' = "create"
                           /\ bsCalls' = Append(bsCalls, c)
                           /\ UNCHANGED bsRet
                      ELSE IF backendSvcEqual(expectedBS(args, useConnectionTrackingPolicy),
                                              CHOOSE o \in c.got : TRUE,
                                              useConnectionTrackingPolicy)
                      THEN EnsureReturn(c.got, "", {c})
                      ELSE /\ bsPc' = "update"
                           /\ bsCalls' = Append(bsCalls, c)
                           /\ UNCHANGED bsRet
    /\ UNCHANGED <<useConnectionTrackingPolicy, bsStart, remote, writes, otherWrites, ensureCalls, bsArgs>>

\* a create that returns what it sent instead of fetching the object again
EnsureCreate_ReturnsSent ==
    /\ bsPc = "create"
    /\ \E fail \in BOOLEAN :
          LET args == CHOOSE a \in bsArgs : TRUE
              e == expectedBS(args, useConnectionTrackingPolicy)
          IN  IF fail \/ remote # {}
              THEN /\ EnsureReturn({}, IF fail THEN "remote" ELSE "conflict",
                                   {Call("Create", {e}, {}, IF fail THEN "remote" ELSE "conflict")})
                   /\ UNCHANGED <<remote, writes>>
              ELSE /\ remote' = Stored(e, writes + 1)
                   /\ writes' = writes + 1
                   /\ EnsureReturn({e}, "", {Call("Create", {e}, {}, "")})
    /\ UNCHANGED <<useConnectionTrackingPolicy, bsStart, otherWrites, ensureCalls, bsArgs, bsFetched>>

\* bs == nil: CreateBackendService with the expected object
EnsureCreate ==
    /\ bsPc = "create"
    /\ \E fail \in BOOLEAN :
          LET args == CHOOSE a \in bsArgs : TRUE
              e == expectedBS(args, useConnectionTrackingPolicy)
          IN  IF fail \/ remote # {}
              THEN /\ EnsureReturn({}, IF fail THEN "remote" ELSE "conflict",
                                   {Call("Create", {e}, {}, IF fail THEN "remote" ELSE "conflict")})
                   /\ UNCHANGED <<remote, writes>>
              ELSE /\ remote' = Stored(e, writes + 1)
                   /\ writes' = writes + 1
                   /\ bsCalls' = Append(bsCalls, Call("Create", {e}, {}, ""))
                   /\ bsPc' = "refetch"
                   /\ UNCHANGED bsRet
    /\ UNCHANGED <<useConnectionTrackingPolicy, bsStart, otherWrites, ensureCalls, bsArgs, bsFetched>>

\* UpdateBackendService with the fingerprint and the backends of the fetched bs
EnsureUpdate ==
    /\ bsPc = "update"
    /\ \E fail \in BOOLEAN :
          LET args == CHOOSE a \in bsArgs : TRUE
              bs == CHOOSE o \in bsFetched : TRUE
              u == updateBS(args, useConnectionTrackingPolicy, bs)
              e == IF fail THEN "remote"
                   ELSE IF remote = {} THEN "notfound"
                   ELSE IF (CHOOSE o \in remote : TRUE).Fingerprint # u.Fingerprint
                        THEN "fingerprint"
                   ELSE ""
          IN  IF e # ""
              THEN /\ EnsureReturn({}, e, {Call("Update", {u}, {}, e)})
                   /\ UNCHANGED <<remote, writes>>
              ELSE /\ remote' = Stored(u, writes + 1)
                   /\ writes' = writes + 1
                   /\ bsCalls' = Append(bsCalls, Call("Update", {u}, {}, ""))
                   /\ bsPc' = "refetch"
                   /\ UNCHANGED bsRet
    /\ UNCHANGED <<useConnectionTrackingPolicy, bsStart, otherWrites, ensureCalls, bsArgs, bsFetched>>

\* the GetBackendService whose result the create and the update path return
EnsureRefetch ==
    /\ bsPc = "refetch"
    /\ \E fail \in BOOLEAN :
          LET c == GetBackendService(remote, fail)
          IN  EnsureReturn(c.got, c.err, {c})
    /\ UNCHANGED <<useConnectionTrackingPolicy, bsStart, remote, writes, otherWrites, ensureCalls,
                   bsArgs, bsFetched>>

EnsureL4BackendService ==
    \/ EnsureStart
    \/ EnsureGet
    \/ EnsureCreate
    \/ EnsureUpdate
    \/ EnsureRefetch

\* what another client of the remote API writes over the object o: a draining
\* timeout of 60 seconds, an attached backend, the other session affinity
OtherChanges(o) ==
    {[o EXCEPT !.ConnectionDraining = {60}],
     [o EXCEPT !.Backends = <<"neg">>],
     [o EXCEPT !.SessionAffinity = IF @ = "NONE" THEN "CLIENT_IP" ELSE "NONE"]}

\* another client of the remote API creates, changes or deletes the object
OtherWriter ==
    /\ otherWrites < MaxOtherWrites
    /\ otherWrites' = otherWrites + 1
    /\ writes' = writes + 1
    /\ \/ /\ remote = {}
          /\ \E args \in EnsureArgs :
                remote' = Stored(expectedBS(args, FALSE), writes + 1)
       \/ /\ remote # {}
          /\ \E o \in OtherChanges(CHOOSE r \in remote : TRUE) :
                remote' = Stored(o, writes + 1)
       \/ /\ remote # {}
          /\ remote' = {}
    /\ UNCHANGED <<useConnectionTrackingPolicy, bsStart, ensureCalls, bsPc, bsArgs, bsFetched,
                   bsCalls, bsRet>>

InitBS ==
    /\ InitController
    /\ \E use \in BOOLEAN : InitBackends(use)
    /\ InitEqual
    /\ InitPool({})
    /\ InitTime(0)
    /\ InitGC
    /\ InitResolver
    /\ InitIngress

NextBS ==
    \/ EnsureStart /\ UNCHANGED <<cvars, eqvars, poolvars, tvars, gvars, resvars, ingvars>>
    \/ EnsureGet /\ UNCHANGED <<cvars, eqvars, poolvars, tvars, gvars, resvars, ingvars>>
    \/ EnsureCreate /\ UNCHANGED <<cvars, eqvars, poolvars, tvars, gvars, resvars, ingvars>>
    \/ EnsureUpdate /\ UNCHANGED <<cvars, eqvars, poolvars, tvars, gvars, resvars, ingvars>>
    \/ EnsureRefetch /\ UNCHANGED <<cvars, eqvars, poolvars, tvars, gvars, resvars, ingvars>>
    \/ OtherWriter /\ UNCHANGED <<cvars, eqvars, poolvars, tvars, gvars, resvars, ingvars>>

SpecBS == InitBS /\ [][NextBS]_vars

(***************************************************************************)
(* backendSvcEqual as a function of its arguments: a is any object of      *)
(* EqObjects, b starts as a and is changed field by field.                 *)
(***************************************************************************)
\* fields in which b may differ from a at the same time
MaxDiff == 2

\* the values each field of a composite.BackendService takes
EqFieldValues ==
    [Protocol |-> {"TCP", "UDP"},
     Description |-> {[serviceName |-> "ns/svc"], [serviceName |-> "ns/other"]},
     HealthChecks |-> {<<"hc">>, <<"hc", "hc2">>, <<"hc2", "hc">>},
     SessionAffinity |-> {"NONE", "CLIENT_IP"},
     LoadBalancingScheme |-> {"INTERNAL", "EXTERNAL"},
     ConnectionTrackingPolicy |->
         {{}, {StrongAffinityPolicy},
          {[StrongAffinityPolicy EXCEPT !.IdleTimeoutSec = 120]}},
     Network |-> {"", "net"},
     ConnectionDraining |-> {{DefaultConnectionDrainingTimeoutSeconds}, {60}},
     Backends |-> {<<>>, <<"neg">>}]

EqFields == DOMAIN EqFieldValues

EqObjects ==
    [Protocol : EqFieldValues.Protocol,
     Description : EqFieldValues.Description,
     HealthChecks : EqFieldValues.HealthChecks,
     SessionAffinity : EqFieldValues.SessionAffinity,
     LoadBalancingScheme : EqFieldValues.LoadBalancingScheme,
     ConnectionTrackingPolicy : EqFieldValues.ConnectionTrackingPolicy,
     Network : EqFieldValues.Network,
     ConnectionDraining : EqFieldValues.ConnectionDraining,
     Backends : EqFieldValues.Backends]

\* the fields in which two objects differ
DiffFields(a, b) == {f \in EqFields : a[f] # b[f]}

\* backendSvcEqual applied to the two objects in both orders and to each
\* object and itself
Compare(a, b, flag) ==
    [ab |-> backendSvcEqual(a, b, flag),
     ba |-> backendSvcEqual(b, a, flag),
     aa |-> backendSvcEqual(a, a, flag),
     bb |-> backendSvcEqual(b, b, flag)]

InitEq ==
    /\ InitController
    /\ InitBackends(FALSE)
    /\ InitPool({})
    /\ InitTime(0)
    /\ InitGC
    /\ InitResolver
    /\ InitIngress
    /\ eqA \in EqObjects
    /\ eqB = eqA
    /\ eqFlag \in BOOLEAN
    /\ eqRes = Compare(eqA, eqB, eqFlag)

\* one field of b takes another value, and the objects are compared
EqChangeField ==
    \E f \in EqFields : \E v \in EqFieldValues[f] \ {eqB[f]} :
        /\ Cardinality(DiffFields(eqA, [eqB EXCEPT ![f] = v])) <= MaxDiff
        /\ eqB' = [eqB EXCEPT ![f] = v]
        /\ eqRes' = Compare(eqA, eqB', eqFlag)
        /\ UNCHANGED <<eqA, eqFlag>>

NextEq == EqChangeField /\ UNCHANGED <<cvars, bsvars, poolvars, tvars, gvars, resvars, ingvars>>

SpecEq == InitEq /\ [][NextEq]_vars

(***************************************************************************)
(* Backends.Get, Delete and Health.  The remote object carries what the    *)
(* calls read: the version its description requires and its attached       *)
(* backend groups, each group standing for the HealthStatus list the       *)
(* health lookup of the group returns.  composite.CreateKey, the remote    *)
(* API, the features package and the error classifiers of utils are not    *)
(* part of the sources and are modelled from their contracts.              *)
(***************************************************************************)
\* attached backend groups of the remote object
MaxGroups == 2

\* instances a backend group reports on
MaxStatuses == 2

Versions == {"alpha", "beta", "ga"}

Scopes == {"global", "regional", "zonal"}

\* HealthState values; "nil" stands for a nil entry of HealthStatus
HealthStates == {"HEALTHY", "UNHEALTHY", "TIMEOUT"}

StatusLists == UNION {[1..n -> HealthStates \cup {"nil"}] : n \in 0..MaxStatuses}

BackendLists == UNION {[1..n -> StatusLists] : n \in 0..MaxGroups}

PoolRemotes ==
    {{}} \cup {{o} : o \in [Required : Versions, Backends : BackendLists]}

Ops == {"Get", "Delete", "Health"}

\* features.IsLowerVersion: alpha is lower than beta, beta lower than ga
VersionLevel(v) ==
    CASE v = "alpha" -> 0
      [] v = "beta" -> 1
      [] v = "ga" -> 2

IsLowerVersion(a, b) == VersionLevel(a) < VersionLevel(b)

\* features.VersionFromDescription
VersionFromDescription(be) == be.Required

\* composite.CreateKey fails for a scope that is neither global nor regional,
\* and for the regional scope when the cloud has no region
CreateKeyFails(scope, noRegion) ==
    \/ scope \notin {"global", "regional"}
    \/ scope = "regional" /\ noRegion

\* composite.GetBackendService at a version: the object as that version of
\* the API presents it, or an error
GetBackendServiceAt(r, version, fail) ==
    IF fail THEN [obj |-> {}, err |-> "remote"]
    ELSE IF r = {} THEN [obj |-> {}, err |-> "notfound"]
    ELSE [obj |-> {[Required |-> o.Required, Backends |-> o.Backends,
                    Version |-> version] : o \in r},
          err |-> ""]

\* what composite.DeleteBackendService can answer: "" for a delete done
DeleteOutcomes(r) ==
    IF r = {} THEN {"notfound", "remote"} ELSE {"", "inuse", "remote"}

\* utils.IsHTTPErrorCode(err, 404) || utils.IsInUsedByError(err)
Ignorable(e) == e \in {"notfound", "inuse"}

\* the HealthStatus list the health lookup of the i-th group returns
GroupHealth(r, i) == (CHOOSE o \in r : TRUE).Backends[i]

LogEntry(call, version, group, e) ==
    [call |-> call, version |-> version, group |-> group, err |-> e]

PoolReturn(obj, state, e) ==
    /\ poolRet' = [obj |-> obj, state |-> state, err |-> e]
    /\ poolPc' = "returned"

\* the end of Get with the result res: the return of Get, or, in Health,
\* the checks that follow its call of Get
GetReturn(res) ==
    IF poolOp.op = "Get"
    THEN /\ PoolReturn(res.obj, "", res.err)
         /\ UNCHANGED poolLocals
    ELSE IF res.err # ""
    THEN /\ PoolReturn({}, "Unknown", "get")
         /\ UNCHANGED poolLocals
    ELSE IF \A be \in res.obj : Len(be.Backends) = 0
    THEN /\ PoolReturn({}, "Unknown", "nobackends")
         /\ UNCHANGED poolLocals
    ELSE /\ poolPc' = "health"
         /\ poolLocals' = [be |-> res.obj, i |-> 1, ret |-> "Unknown"]
         /\ UNCHANGED poolRet

\* a call of Get, Delete or Health begins: composite.CreateKey
PoolStart ==
    /\ poolPc \in {"idle", "returned"}
    /\ \E op \in Ops : \E version \in Versions : \E scope \in Scopes :
       \E noRegion \in BOOLEAN :
          /\ poolOp' = [op |-> op, version |-> version, scope |-> scope]
          /\ poolLog' = <<>>
          /\ poolLocals' = [be |-> {}, i |-> 0, ret |-> ""]
          /\ IF CreateKeyFails(scope, noRegion)
             THEN IF op = "Health"
                  THEN PoolReturn({}, "Unknown", "get")
                  ELSE PoolReturn({}, "", "key")
             ELSE /\ poolPc' = IF op = "Delete" THEN "delete" ELSE "fetch"
                  /\ poolRet' = [obj |-> {}, state |-> "", err |-> ""]
    /\ UNCHANGED poolRemote

\* a Get that returns what the first fetch returned
GetFetch_NoSecondFetch ==
    /\ poolPc = "fetch"
    /\ \E fail \in BOOLEAN :
          LET r == GetBackendServiceAt(poolRemote, poolOp.version, fail)
          IN  /\ poolLog' = Append(poolLog,
                     LogEntry("GetBackendService", poolOp.version, 0, r.err))
              /\ GetReturn(r)
    /\ UNCHANGED <<poolRemote, poolOp>>

\* Get: the fetch at the requested version
GetFetch ==
    /\ poolPc = "fetch"
    /\ \E fail \in BOOLEAN :
          LET r == GetBackendServiceAt(poolRemote, poolOp.version, fail)
          IN  /\ poolLog' = Append(poolLog,
                     LogEntry("GetBackendService", poolOp.version, 0, r.err))
              /\ IF r.err # ""
                 THEN GetReturn([obj |-> {}, err |-> r.err])
                 ELSE LET be == CHOOSE o \in r.obj : TRUE
                          versionRequired == VersionFromDescription(be)
                      IN  IF IsLowerVersion(versionRequired, poolOp.version)
                          THEN /\ poolPc' = "fetchLower"
                               /\ poolLocals' = [poolLocals EXCEPT !.be = r.obj]
                               /\ UNCHANGED poolRet
                          ELSE GetReturn(r)
    /\ UNCHANGED <<poolRemote, poolOp>>

\* Get: the second fetch, at the version the description requires
GetFetchLower ==
    /\ poolPc = "fetchLower"
    /\ \E fail \in BOOLEAN :
          LET versionRequired ==
                  VersionFromDescription(CHOOSE o \in poolLocals.be : TRUE)
              r == GetBackendServiceAt(poolRemote, versionRequired, fail)
          IN  /\ poolLog' = Append(poolLog,
                     LogEntry("GetBackendService", versionRequired, 0, r.err))
              /\ GetReturn(IF r.err # "" THEN [obj |-> {}, err |-> r.err] ELSE r)
    /\ UNCHANGED <<poolRemote, poolOp>>

\* a Delete that returns the in-use error
DeleteRemote_InUseIsError ==
    /\ poolPc = "delete"
    /\ \E e \in DeleteOutcomes(poolRemote) :
          /\ poolLog' = Append(poolLog,
                 LogEntry("DeleteBackendService", poolOp.version, 0, e))
          /\ poolRemote' = IF e = "" THEN {} ELSE poolRemote
          /\ PoolReturn({}, "", IF e = "notfound" THEN "" ELSE e)
    /\ UNCHANGED <<poolOp, poolLocals>>

\* Delete: the remote delete and the classification of its error
DeleteRemote ==
    /\ poolPc = "delete"
    /\ \E e \in DeleteOutcomes(poolRemote) :
          /\ poolLog' = Append(poolLog,
                 LogEntry("DeleteBackendService", poolOp.version, 0, e))
          /\ poolRemote' = IF e = "" THEN {} ELSE poolRemote
          /\ IF e # ""
             THEN IF Ignorable(e)
                  THEN PoolReturn({}, "", "")
                  ELSE PoolReturn({}, "", e)
             ELSE PoolReturn({}, "", "")
    /\ UNCHANGED <<poolOp, poolLocals>>

\* Health: the loop over one HealthStatus list, from its k-th entry on, ret
\* being the state seen last; reading the state of a nil entry panics
RECURSIVE WalkStatuses(_, _, _)
WalkStatuses(hs, k, ret) ==
    IF k > Len(hs) THEN [ret |-> ret, panic |-> FALSE]
    ELSE IF hs[k] = "nil" THEN [ret |-> ret, panic |-> TRUE]
    ELSE IF hs[k] = "HEALTHY" THEN [ret |-> "HEALTHY", panic |-> FALSE]
    ELSE WalkStatuses(hs, k + 1, hs[k])

\* Health: the loop moves to the next backend, or ends and returns ret
HealthContinue(ret) ==
    IF poolLocals.i = Len((CHOOSE o \in poolLocals.be : TRUE).Backends)
    THEN /\ PoolReturn({}, ret, "")
         /\ UNCHANGED poolLocals
    ELSE /\ poolLocals' = [poolLocals EXCEPT !.i = @ + 1, !.ret = ret]
         /\ UNCHANGED <<poolPc, poolRet>>

\* a Health that goes on to the next backend after a HEALTHY instance
HealthLookup_NoShortCircuit ==
    /\ poolPc = "health"
    /\ poolOp.scope \in {"global", "regional"}
    /\ \E fail \in BOOLEAN :
          /\ poolLog' = Append(poolLog,
                 LogEntry("GetBackendServiceHealth", "", poolLocals.i,
                          IF fail THEN "remote" ELSE ""))
          /\ IF fail
             THEN /\ PoolReturn({}, "Unknown", "health")
                  /\ UNCHANGED poolLocals
             ELSE LET hs == GroupHealth(poolRemote, poolLocals.i)
                  IN  IF Len(hs) = 0 \/ hs[1] = "nil"
                      THEN HealthContinue(poolLocals.ret)
                      ELSE LET w == WalkStatuses(hs, 1, poolLocals.ret)
                           IN  IF w.panic
                               THEN /\ PoolReturn({}, "", "panic")
                                    /\ UNCHANGED poolLocals
                               ELSE HealthContinue(w.ret)
    /\ UNCHANGED <<poolRemote, poolOp>>

\* Health: one iteration of the loop over the attached backends
HealthLookup ==
    /\ poolPc = "health"
    /\ IF poolOp.scope \notin {"global", "regional"}
       THEN /\ PoolReturn({}, "Unknown", "scope")
            /\ UNCHANGED <<poolLog, poolLocals>>
       ELSE \E fail \in BOOLEAN :
               /\ poolLog' = Append(poolLog,
                      LogEntry("GetBackendServiceHealth", "", poolLocals.i,
                               IF fail THEN "remote" ELSE ""))
               /\ IF fail
                  THEN /\ PoolReturn({}, "Unknown", "health")
                       /\ UNCHANGED poolLocals
                  ELSE LET hs == GroupHealth(poolRemote, poolLocals.i)
                       IN  IF Len(hs) = 0 \/ hs[1] = "nil"
                           THEN HealthContinue(poolLocals.ret)
                           ELSE LET w == WalkStatuses(hs, 1, poolLocals.ret)
                                IN  IF w.panic
                                    THEN /\ PoolReturn({}, "", "panic")
                                         /\ UNCHANGED poolLocals
                                    ELSE IF w.ret = "HEALTHY"
                                    THEN /\ PoolReturn({}, w.ret, "")
                                         /\ UNCHANGED poolLocals
                                    ELSE HealthContinue(w.ret)
    /\ UNCHANGED <<poolRemote, poolOp>>

InitPoolSpec ==
    /\ InitController
    /\ InitBackends(FALSE)
    /\ InitEqual
    /\ \E r \in PoolRemotes : InitPool(r)
    /\ InitTime(0)
    /\ InitGC
    /\ InitResolver
    /\ InitIngress

NextPool ==
    \/ PoolStart /\ UNCHANGED <<cvars, bsvars, eqvars, tvars, gvars, resvars, ingvars>>
    \/ GetFetch /\ UNCHANGED <<cvars, bsvars, eqvars, tvars, gvars, resvars, ingvars>>
    \/ GetFetchLower /\ UNCHANGED <<cvars, bsvars, eqvars, tvars, gvars, resvars, ingvars>>
    \/ DeleteRemote /\ UNCHANGED <<cvars, bsvars, eqvars, tvars, gvars, resvars, ingvars>>
    \/ HealthLookup /\ UNCHANGED <<cvars, bsvars, eqvars, tvars, gvars, resvars, ingvars>>

SpecPool == InitPoolSpec /\ [][NextPool]_vars

(***************************************************************************)
(* Properties.                                                             *)
(***************************************************************************)
\* a pass of the worker of queue q for key k is in flight
InFlight(q, k) == pc[q] \in InPass /\ cur[q] = k

SyncersOf(k) == {x[2] : x \in OwnedBy(syncers, k)}

\* C1: for each of the three queues and every key, at most one pass for the
\* key is in flight: the keys handed out by Get and not yet Done are exactly
\* the keys of the running passes, and the key of a running pass is not in
\* the queue, so no Get can hand it out a second time, whatever Add,
\* AddRateLimited, Get and Done calls interleave.
C1_AtMostOnePassInFlight ==
    \A q \in Queues : \A k \in KeysOf(q) :
        /\ InFlight(q, k) => k \in wq[q].processing /\ k \notin Range(wq[q].queue)
        /\ k \in wq[q].processing => InFlight(q, k)

\* a failed service pass is still in flight when its delayed re-add arrives
C1_Witness ==
    /\ pc["service"] = "done"
    /\ err # ""
    /\ cur["service"] \in wq["service"].dirty
    /\ cur["service"] \in wq["service"].processing

\* C2: an Add of a key that is queued or being processed is neither lost nor
\* duplicated: a key is in the queue at most once, a key recorded as dirty
\* is either queued exactly once or waits for the Done of its running pass,
\* and every queued key is recorded.
C2_AddRecordedOnce ==
    \A q \in Queues : \A k \in KeysOf(q) :
        /\ Count(k, wq[q].queue) <= 1
        /\ k \in wq[q].dirty =>
              \/ Count(k, wq[q].queue) = 1 /\ ~InFlight(q, k)
              \/ Count(k, wq[q].queue) = 0 /\ InFlight(q, k)
        /\ Count(k, wq[q].queue) = 1 => k \in wq[q].dirty

\* an Add arrived while the service pass of the key was running
C2_Witness ==
    /\ pc["service"] = "syncAnn"
    /\ cur["service"] \in wq["service"].dirty
    /\ wq["service"].queue = <<>>

\* C3: after ShutDown() of a queue the worker loop consuming it returns.
C3_WorkersReturnAfterShutDown ==
    \A q \in Queues : wq[q].shuttingDown ~> pc[q] = "returned"

\* C4: every service pass ends in handleErr and only then in Done; handleErr
\* after an error counts one more failure of the key and re-enqueues it with
\* AddRateLimited (a queue that is shutting down drops the add), handleErr
\* after a pass without error resets the count to zero and re-enqueues
\* nothing.
C4_ForgetOrAddRateLimited ==
    [][LET k == cur["service"]
           f == failures["service"][k]
       IN  /\ (pc["service"] \in InPass /\ pc'["service"] \notin InPass)
                 => pc["service"] = "done"
           /\ (pc["service"] # "done" /\ pc'["service"] = "done")
                 => pc["service"] = "handleErr"
           /\ (pc["service"] = "handleErr" /\ pc'["service"] = "done") =>
                 IF err = ""
                 THEN failures'["service"][k] = 0 /\ waiting' = waiting
                 ELSE /\ failures'["service"][k] = IF f < MaxFailures THEN f + 1 ELSE f
                      /\ IF wq["service"].shuttingDown
                         THEN waiting' = waiting
                         ELSE k \in waiting'["service"]
      ]_vars

\* the second consecutive failure of a key has been counted and the key waits
\* for its delay
C4_Witness ==
    /\ pc["service"] = "done"
    /\ err # ""
    /\ failures["service"][cur["service"]] = 2
    /\ cur["service"] \in waiting["service"]

\* C5: a failed service pass is followed by another pass of the key unless
\* the queue is shut down; a pass that finds the service missing returns no
\* error and the key is forgotten.
C5_FailedKeyRetried ==
    /\ \A k \in ServiceKeys :
          (pc["service"] = "done" /\ cur["service"] = k /\ err # ""
              /\ ~wq["service"].shuttingDown)
          ~> ((pc["service"] = "process" /\ cur["service"] = k)
                 \/ wq["service"].shuttingDown)
    /\ [](pc["service"] = "handleErr" /\ passLog = <<"StopSyncer">> => err = "")
    /\ [](pc["service"] = "done" /\ passLog = <<"StopSyncer">>
             => failures["service"][cur["service"]] = 0)

\* a key that failed twice is processed again
C5_Witness ==
    /\ pc["service"] = "process"
    /\ failures["service"][cur["service"]] = 2
    /\ ~wq["service"].shuttingDown

\* C6: when a resolver step of a service pass fails, the pass returns the
\* error and has applied nothing: no manager call, no patch, the syncer
\* table and the status annotation are as before.
C6_ResolverErrorAppliesNothing ==
    [][(pc["service"] = "process" /\ pc'["service"] # "process") =>
          LET k == cur["service"]
              failing ==
                  /\ store[k] # {}
                  /\ ResolvePortInfoMap(Cfg, k, CHOOSE o \in store[k] : TRUE,
                                        Ingresses, FALSE, TRUE).err # ""
          IN  /\ failing => pc'["service"] = "handleErr" /\ err' # ""
              /\ err' # "" =>
                    /\ syncers' = syncers
                    /\ negStatus' = negStatus
                    /\ passLog' = passLog
      ]_vars

\* a pass failed on a merge collision while the service had a live syncer
\* and a status annotation
C6_Witness ==
    /\ pc["service"] = "handleErr"
    /\ err = "merge"
    /\ passLog = <<>>
    /\ OwnedBy(syncers, cur["service"]) # {}
    /\ negStatus[cur["service"]] # {}

\* C7: while the manager is not shut down, the live syncers of a service
\* whose last pass succeeded are those of the PortInfoMap that pass resolved
\* (none for a deleted service or an empty map), outside of a running pass
\* that has stopped the syncers and not yet returned.
C7_SyncersMatchLastPass ==
    \A k \in ServiceKeys :
        (/\ lastPass[k].result = "ok"
         /\ runPc # "returned"
         /\ ~(pc["service"] = "rmAnn" /\ cur["service"] = k))
        => SyncersOf(k) = lastPass[k].ports

\* a pass for two ports succeeded and the worker is back at Get
C7_Witness ==
    /\ pc["service"] = "get"
    /\ lastPass[1].result = "ok"
    /\ lastPass[1].ports = {80, 443}
    /\ SyncersOf(1) = {80, 443}

\* C8: once stop() has returned no syncer is live.
C8_NoSyncerLiveAfterStop == runPc = "returned" => syncers = {}

\* C9 as claimed: in a pass with a non-empty map the status annotation is
\* published only after EnsureSyncers was invoked in that pass.
C9_PatchAfterEnsureSyncers ==
    \A i \in DOMAIN passLog :
        (passLog[i] = "Patch" /\ DOMAIN pmap # {})
        => \E j \in 1..(i - 1) : passLog[j] = "EnsureSyncers"

\* C9: in a pass with a non-empty map the resolver runs first, then the
\* status annotation writer, then the syncer manager: EnsureSyncers is
\* invoked only after syncNegStatusAnnotation has returned without error in
\* that pass.
C9_EnsureSyncersAfterAnnotation ==
    /\ \A i \in DOMAIN passLog :
          passLog[i] = "EnsureSyncers"
          => /\ DOMAIN pmap # {}
             /\ i = 2
             /\ passLog[1] \in {"Patch", "NoPatch"}
    /\ pc["service"] = "ensure" => Len(passLog) = 1 /\ passLog[1] \in {"Patch", "NoPatch"}

\* a pass published the annotation and then invoked EnsureSyncers
C9_Witness == passLog = <<"Patch", "EnsureSyncers">>

\* the object a create carries for the arguments a
DesiredAttributes(o, a) ==
    /\ o.Name = a.name
    /\ o.Protocol = a.protocol
    /\ o.Description = [serviceName |-> a.namespacedName]
    /\ o.HealthChecks = <<a.hcLink>>
    /\ o.SessionAffinity = (IF a.sessionAffinity = "ClientIP" THEN "CLIENT_IP" ELSE "NONE")
    /\ o.LoadBalancingScheme = a.scheme
    /\ o.Network = (IF a.networkIsDefault THEN "" ELSE a.networkURL)
    /\ o.ConnectionTrackingPolicy =
          (IF useConnectionTrackingPolicy THEN a.connectionTrackingPolicy ELSE {})
    /\ o.ConnectionDraining = (IF a.protocol = "TCP" THEN {30} ELSE {0})
    /\ o.Backends = <<>>

\* C10: a returned EnsureL4BackendService call whose first fetch found no
\* remote object has issued exactly one create carrying the desired
\* attributes and no update; when the create was accepted it has fetched
\* the object again and returned what that fetch returned, an object that
\* carries a fingerprint; when the first fetch failed otherwise, or the
\* create failed, it has returned that error and made no further remote
\* call.
C10_CreateThenRefetch ==
    (bsPc = "returned" /\ bsCalls # <<>>) =>
        LET first == bsCalls[1]
            args == CHOOSE a \in bsArgs : TRUE
        IN  /\ first.op = "Get"
            /\ first.err \notin {"", "notfound"} =>
                  /\ Len(bsCalls) = 1
                  /\ bsRet = [obj |-> {}, err |-> first.err]
            /\ first.err = "notfound" =>
                  /\ Len(bsCalls) >= 2
                  /\ bsCalls[2].op = "Create"
                  /\ \A o \in bsCalls[2].sent : DesiredAttributes(o, args)
                  /\ bsCalls[2].sent # {}
                  /\ \A i \in 3..Len(bsCalls) : bsCalls[i].op = "Get"
                  /\ IF bsCalls[2].err # ""
                     THEN /\ Len(bsCalls) = 2
                          /\ bsRet = [obj |-> {}, err |-> bsCalls[2].err]
                     ELSE /\ Len(bsCalls) = 3
                          /\ bsRet = [obj |-> bsCalls[3].got, err |-> bsCalls[3].err]
                          /\ bsRet.err = "" =>
                                /\ bsRet.obj # {}
                                /\ \A o \in bsRet.obj : o.Fingerprint # 0

\* a call created the object, fetched it again and returned it
C10_Witness ==
    /\ bsPc = "returned"
    /\ Len(bsCalls) = 3
    /\ bsCalls[1].err = "notfound"
    /\ bsCalls[2].op = "Create"
    /\ bsCalls[2].err = ""
    /\ bsRet.err = ""
    /\ bsRet.obj = remote
    /\ remote # {}

\* the object o has the attributes the arguments a ask for, whatever its
\* connection-draining timeout, attached backends and fingerprint are
SemanticallyEqual(o, a) ==
    /\ o.Protocol = a.protocol
    /\ o.Description = [serviceName |-> a.namespacedName]
    /\ {o.HealthChecks[i] : i \in DOMAIN o.HealthChecks} = {a.hcLink}
    /\ o.SessionAffinity = (IF a.sessionAffinity = "ClientIP" THEN "CLIENT_IP" ELSE "NONE")
    /\ o.LoadBalancingScheme = a.scheme
    /\ o.Network = (IF a.networkIsDefault THEN "" ELSE a.networkURL)
    /\ useConnectionTrackingPolicy =>
          o.ConnectionTrackingPolicy = a.connectionTrackingPolicy

\* the step of EnsureL4BackendService that made a remote call
EnsureCalled == bsCalls' # bsCalls /\ bsCalls' # <<>>

\* C11: when the first fetch of an EnsureL4BackendService call finds a remote
\* object semantically equal to the desired state (it may differ in its
\* connection-draining timeout and its attached backends), the call returns
\* at once the fetched object, unchanged and without error, has made no
\* other remote call, and leaves the remote object exactly as it was.
C11_EqualObjectIsReturnedUntouched ==
    [][(bsPc = "get" /\ EnsureCalled /\ remote # {} /\ bsCalls'[Len(bsCalls')].err = "") =>
          LET o == CHOOSE r \in remote : TRUE
              a == CHOOSE x \in bsArgs : TRUE
          IN  SemanticallyEqual(o, a) =>
                 /\ remote' = remote
                 /\ bsPc' = "returned"
                 /\ bsRet' = [obj |-> remote, err |-> ""]
                 /\ bsCalls' = <<[op |-> "Get", sent |-> {}, got |-> remote, err |-> ""]>>
      ]_vars

\* a call for TCP returned, without a write, an object that differs from the
\* desired one in its draining timeout and its attached backends
C11_Witness ==
    /\ bsPc = "returned"
    /\ Len(bsCalls) = 1
    /\ bsRet.err = ""
    /\ bsRet.obj = remote
    /\ \E o \in remote : \E a \in bsArgs :
          /\ a.protocol = "TCP"
          /\ o.ConnectionDraining = {60}
          /\ o.Backends = <<"neg">>

\* C12: the update of an EnsureL4BackendService call carries the fingerprint
\* of the object the call fetched, and a call makes at most one update; when
\* another client has changed or deleted the object since the fetch, the
\* update fails, the remote object stays as the other client left it, and
\* the call returns the error at once.
C12_UpdateCarriesReadFingerprint ==
    /\ [][(bsPc = "update" /\ EnsureCalled) =>
             LET c == bsCalls'[Len(bsCalls')]
                 bs == CHOOSE o \in bsFetched : TRUE
             IN  /\ c.op = "Update"
                 /\ c.sent # {}
                 /\ \A u \in c.sent : u.Fingerprint = bs.Fingerprint
                 /\ remote # bsFetched =>
                       /\ c.err # ""
                       /\ remote' = remote
                       /\ bsPc' = "returned"
                       /\ bsRet' = [obj |-> {}, err |-> c.err]
                       /\ Len(bsCalls') = 2
         ]_vars
    /\ [](Cardinality({i \in DOMAIN bsCalls : bsCalls[i].op = "Update"}) <= 1)

\* an update was refused because another client had changed the object
C12_Witness ==
    /\ bsPc = "returned"
    /\ Len(bsCalls) = 2
    /\ bsCalls[2].op = "Update"
    /\ bsCalls[2].err = "fingerprint"
    /\ bsRet.err = "fingerprint"
    /\ remote # {}
    /\ remote # bsFetched

\* no other client wrote the remote object while the call ran
NoOtherWriterDuringCall == otherWrites = bsStart.otherWrites

PositiveTimeout(r) == \E o \in r : \E t \in o.ConnectionDraining : t > 0

\* C14: no step of an EnsureL4BackendService call with protocol TCP changes
\* a positive connection-draining timeout of the remote object, on the
\* no-update path and on the update path alike; such a call writes the
\* default timeout of 30 seconds only with a create, or with an update of
\* an object it fetched without a timeout or with a timeout of zero (an
\* update of an object that held 30 already keeps it).
C14_TCPKeepsPositiveTimeout ==
    [][(EnsureCalled /\ \A a \in bsArgs : a.protocol = "TCP") =>
          LET c == bsCalls'[Len(bsCalls')]
          IN  /\ PositiveTimeout(remote) =>
                    /\ remote' # {}
                    /\ \A o \in remote : \A n \in remote' :
                          n.ConnectionDraining = o.ConnectionDraining
              /\ (c.op = "Update" /\ \A u \in c.sent : u.ConnectionDraining = {30}) =>
                    \A bs \in bsFetched : bs.ConnectionDraining \in {{}, {0}, {30}}
              /\ c.op = "Create" => \A u \in c.sent : u.ConnectionDraining = {30}
      ]_vars

\* a call for TCP updated an object whose timeout a user had set to 60, and
\* the timeout is still 60
C14_Witness ==
    /\ bsPc = "returned"
    /\ Len(bsCalls) = 3
    /\ bsCalls[2].op = "Update"
    /\ bsCalls[2].err = ""
    /\ \A a \in bsArgs : a.protocol = "TCP"
    /\ \E bs \in bsFetched : bs.ConnectionDraining = {60}
    /\ \E o \in remote : o.ConnectionDraining = {60}
    /\ NoOtherWriterDuringCall

\* C15: no step of an EnsureL4BackendService call changes the attached
\* backends of an existing remote object, so a backend another client
\* attached at any moment is never detached by the call; after a call that
\* found an object and returned without error, no other client having
\* written meanwhile, the attached backends are those present before it.
C15_BackendsNeverChanged ==
    /\ [][(EnsureCalled /\ remote # {}) =>
             /\ remote' # {}
             /\ \A o \in remote : \A n \in remote' : n.Backends = o.Backends
         ]_vars
    /\ []((/\ bsPc = "returned"
           /\ bsCalls # <<>>
           /\ bsRet.err = ""
           /\ NoOtherWriterDuringCall
           /\ bsStart.remote # {})
          => /\ remote # {}
             /\ \A o \in bsStart.remote : \A n \in remote : n.Backends = o.Backends)

\* a call updated an object that has an attached backend, which is still
\* attached
C15_Witness ==
    /\ bsPc = "returned"
    /\ Len(bsCalls) = 3
    /\ bsCalls[2].op = "Update"
    /\ bsCalls[2].err = ""
    /\ bsRet.err = ""
    /\ \E o \in remote : o.Backends = <<"neg">>
    /\ \E o \in bsStart.remote : o.Backends = <<"neg">>

\* the call that has just returned was made with the arguments of the call
\* before it, that call returned an object without error, and no other
\* client has written since that call started
SecondCallAfterSuccess ==
    /\ bsPc = "returned"
    /\ bsCalls # <<>>
    /\ bsStart.args = bsArgs
    /\ bsStart.ret.err = ""
    /\ bsStart.ret.obj # {}
    /\ bsStart.quiet
    /\ NoOtherWriterDuringCall

\* C16: EnsureL4BackendService is idempotent: a second call with the same
\* arguments right after a successful first call, with no other writer,
\* makes only the one fetch (no create, no update), leaves the remote object
\* as it was, and, the fetch succeeding, returns the object the first call
\* returned.
C16_SecondCallIsIdempotent ==
    SecondCallAfterSuccess =>
        /\ Len(bsCalls) = 1
        /\ bsCalls[1].op = "Get"
        /\ remote = bsStart.remote
        /\ bsCalls[1].err = "" => bsRet = bsStart.ret

\* the second call came after a call on an object whose connection-draining
\* timeout another client had set
C16_Witness ==
    /\ SecondCallAfterSuccess
    /\ bsRet = bsStart.ret
    /\ \A a \in bsArgs : a.protocol = "TCP"
    /\ \E o \in remote : o.ConnectionDraining = {60}

\* the fields backendSvcEqual always compares; the health checks count as
\* differing when the two lists differ as sets
ComparedFieldsDiffer(a, b) ==
    \/ a.Protocol # b.Protocol
    \/ a.Description # b.Description
    \/ a.SessionAffinity # b.SessionAffinity
    \/ a.LoadBalancingScheme # b.LoadBalancingScheme
    \/ Range(a.HealthChecks) # Range(b.HealthChecks)
    \/ a.Network # b.Network

\* C17: backendSvcEqual is reflexive and symmetric; its result does not
\* depend on the attached backends or the connection-draining timeout; it is
\* false whenever protocol, description, session affinity, scheme, the set of
\* health checks or the network differ; the connection tracking policy
\* decides the result only when the flag is set.
C17_EqualityPredicate ==
    /\ eqRes.aa /\ eqRes.bb
    /\ eqRes.ab = eqRes.ba
    /\ DiffFields(eqA, eqB) \subseteq {"Backends", "ConnectionDraining"} => eqRes.ab
    /\ ComparedFieldsDiffer(eqA, eqB) => ~eqRes.ab
    /\ ~eqFlag => (eqRes.ab = ~ComparedFieldsDiffer(eqA, eqB))
    /\ eqFlag => (eqRes.ab = (/\ ~ComparedFieldsDiffer(eqA, eqB)
                             /\ eqA.ConnectionTrackingPolicy = eqB.ConnectionTrackingPolicy))

\* two objects that differ in the order of their health checks and in their
\* connection tracking policy are found equal without the flag
C17_Witness ==
    /\ eqA.HealthChecks = <<"hc", "hc2">>
    /\ eqB.HealthChecks = <<"hc2", "hc">>
    /\ eqA.ConnectionTrackingPolicy # eqB.ConnectionTrackingPolicy
    /\ ~eqFlag
    /\ eqRes.ab

\* C18: Delete returns success when the remote delete succeeds, reports
\* not-found or reports the object in use, and returns the error of any other
\* remote failure; it makes the one remote call, and after the in-use answer
\* the remote object is still there.
C18_DeleteIgnoresNotFoundAndInUse ==
    [][poolPc = "delete" =>
          LET c == poolLog'[Len(poolLog')]
          IN  /\ Len(poolLog') = 1
              /\ c.call = "DeleteBackendService"
              /\ poolPc' = "returned"
              /\ c.err \in {"", "notfound", "inuse"} => poolRet'.err = ""
              /\ c.err \notin {"", "notfound", "inuse"} => poolRet'.err = c.err
              /\ c.err = "inuse" => poolRemote' = poolRemote /\ poolRemote' # {}
              /\ c.err = "" => poolRemote' = {}
      ]_vars

\* a Delete of an object in use returned success and the object is there
C18_Witness ==
    /\ poolPc = "returned"
    /\ poolOp.op = "Delete"
    /\ Len(poolLog) = 1
    /\ poolLog[1].err = "inuse"
    /\ poolRet.err = ""
    /\ poolRemote # {}

\* C19: a Get that returns without error returns the object as fetched at the
\* version its description requires when that version is lower than the
\* requested one, having fetched twice, and as fetched at the requested
\* version, having fetched once, otherwise; a Get that returns an error
\* returns no object, and the error is that of its last fetch (or of the key).
C19_GetFetchesAtRequiredVersion ==
    (poolPc = "returned" /\ poolOp.op = "Get") =>
        IF poolRet.err = ""
        THEN /\ poolRemote # {}
             /\ \A o \in poolRemote :
                   LET lower == VersionLevel(o.Required) < VersionLevel(poolOp.version)
                       v == IF lower THEN o.Required ELSE poolOp.version
                       first == LogEntry("GetBackendService", poolOp.version, 0, "")
                       second == LogEntry("GetBackendService", o.Required, 0, "")
                   IN  /\ poolRet.obj = {[Required |-> o.Required,
                                          Backends |-> o.Backends,
                                          Version |-> v]}
                       /\ poolLog = IF lower THEN <<first, second>> ELSE <<first>>
        ELSE /\ poolRet.obj = {}
             /\ poolLog = <<>> => poolRet.err = "key"
             /\ poolLog # <<>> =>
                   /\ poolLog[Len(poolLog)].err = poolRet.err
                   /\ \A i \in 1..(Len(poolLog) - 1) : poolLog[i].err = ""

\* a Get at ga of an object whose description requires alpha returned it as
\* fetched at alpha
C19_Witness ==
    /\ poolPc = "returned"
    /\ poolOp.op = "Get"
    /\ poolOp.version = "ga"
    /\ poolRet.err = ""
    /\ Len(poolLog) = 2
    /\ \E o \in poolRet.obj : o.Version = "alpha" /\ o.Required = "alpha"

\* the groups Health looked the health up for, in the order of the lookups
HealthLookups ==
    LET l == SelectSeq(poolLog, LAMBDA c : c.call = "GetBackendServiceHealth")
    IN  [j \in 1..Len(l) |-> l[j].group]

\* the i-th of the status lists bs reports a status
Reports(bs, i) == Len(bs[i]) > 0 /\ bs[i][1] # "nil"

\* C20: a Health that returns without error has walked the attached groups
\* in order: when a group that reports status has a HEALTHY instance, it
\* returns HEALTHY and has looked up exactly the groups up to the first such
\* group; otherwise it has looked up every group and returns the state of
\* the last instance of the last group that reports status, or Unknown when
\* no group reports status.
C20_HealthShortCircuits ==
    (poolPc = "returned" /\ poolOp.op = "Health" /\ poolRet.err = "") =>
        /\ poolRemote # {}
        /\ \A o \in poolRemote :
              LET bs == o.Backends
                  healthy == {i \in 1..Len(bs) :
                                 /\ Reports(bs, i)
                                 /\ \E k \in 1..Len(bs[i]) : bs[i][k] = "HEALTHY"}
                  reporting == {i \in 1..Len(bs) : Reports(bs, i)}
              IN  IF healthy # {}
                  THEN LET first == CHOOSE i \in healthy : \A j \in healthy : i <= j
                       IN  /\ poolRet.state = "HEALTHY"
                           /\ HealthLookups = [j \in 1..first |-> j]
                  ELSE /\ HealthLookups = [j \in 1..Len(bs) |-> j]
                       /\ IF reporting = {}
                          THEN poolRet.state = "Unknown"
                          ELSE LET last == CHOOSE i \in reporting :
                                               \A j \in reporting : j <= i
                               IN  poolRet.state = bs[last][Len(bs[last])]

\* Health returned HEALTHY after the lookup of the first of two groups, whose
\* second instance is the healthy one
C20_Witness ==
    /\ poolPc = "returned"
    /\ poolOp.op = "Health"
    /\ poolRet.err = ""
    /\ poolRet.state = "HEALTHY"
    /\ HealthLookups = <<1>>
    /\ \E o \in poolRemote :
          /\ Len(o.Backends) = 2
          /\ o.Backends[1] = <<"UNHEALTHY", "HEALTHY">>

\* C21: a Health that returns an error has had a remote call fail (or could
\* not build the key, or met a nil status entry); without such a failure,
\* and in particular when the backend service has no attached backends or no
\* group reports status, it returns Unknown with no error.
C21_HealthErrorOnlyOnRemoteFailure ==
    (poolPc = "returned" /\ poolOp.op = "Health") =>
        /\ poolRet.err \notin {"", "panic"} =>
              \/ poolLog = <<>>
              \/ poolLog[Len(poolLog)].err # ""
        /\ (/\ poolLog # <<>>
            /\ \A i \in 1..Len(poolLog) : poolLog[i].err = ""
            /\ \A o \in poolRemote :
                  \A i \in 1..Len(o.Backends) : ~Reports(o.Backends, i))
           => poolRet.state = "Unknown" /\ poolRet.err = ""

\* the call of syncNegStatusAnnotation for a non-empty map returns in this step
SyncAnnotationReturns == pc["service"] = "syncAnn" /\ pc'["service"] # "syncAnn"

\* C22: syncNegStatusAnnotation patches only on change: called with a
\* non-empty map whose serialized status is the annotation already on the
\* Service, it sends no patch and leaves the annotation as it is; and a call
\* that returns without error for a Service in the store leaves that status
\* on the Service, so that a repeated pass over the same snapshot finds it
\* there and writes nothing.
C22_PatchOnlyOnChange ==
    [][SyncAnnotationReturns =>
          LET key == cur["service"]
              last == passLog'[Len(passLog')]
          IN  /\ (store[key] # {} /\ negStatus[key] = {NegStatusOf(pmap)}) =>
                     /\ last \in {"NoPatch", "SyncFailed"}
                     /\ negStatus' = negStatus
              /\ (store[key] # {} /\ last \in {"Patch", "NoPatch"}) =>
                     negStatus'[key] = {NegStatusOf(pmap)}
              /\ last = "Patch" => negStatus[key] # {NegStatusOf(pmap)}
      ]_vars

\* the second pass over an unchanged Service with an exposed port has found
\* the annotation the first pass wrote and has not patched
C22_Witness ==
    /\ pc["service"] = "ensure"
    /\ passLog = <<"NoPatch">>
    /\ lastPass[cur["service"]].result = "ok"
    /\ lastPass[cur["service"]].ports # {}
    /\ negStatus[cur["service"]] = {NegStatusOf(pmap)}

\* C23: a pass over a service in the store that resolves to an empty map
\* calls StopSyncer for it and then syncNegStatusAnnotation with an empty
\* map; that call only ever removes the annotation (it never writes the
\* status of an empty map), removes it when it is present and nothing fails,
\* and sends no patch when the annotation is absent or the Service is no
\* longer in the store.
C23_EmptyMapRemovesAnnotation ==
    [][LET key == cur["service"]
           last == passLog'[Len(passLog')]
       IN  /\ (pc["service"] = "process" /\ pc'["service"] = "rmAnn") =>
                  /\ store[key] # {}
                  /\ last = "StopSyncer"
                  /\ syncers' = StopSyncer(syncers, key)
                  /\ OwnedBy(syncers', key) = {}
           /\ (pc["service"] = "rmAnn" /\ pc'["service"] # "rmAnn") =>
                  /\ "StopSyncer" \in Range(passLog)
                  /\ negStatus'[key] \in {negStatus[key], {}}
                  /\ last = "Patch" => store[key] # {} /\ negStatus[key] # {}
                  /\ (store[key] # {} /\ negStatus[key] # {} /\ last # "SyncFailed") =>
                         last = "Patch" /\ negStatus'[key] = {}
                  /\ (store[key] = {} \/ negStatus[key] = {}) =>
                         last \in {"NoPatch", "SyncFailed"} /\ negStatus' = negStatus
      ]_vars

\* a pass over a Service that no longer exposes a port has stopped its
\* syncers and removed the annotation an earlier pass wrote
C23_Witness ==
    /\ pc["service"] = "handleErr"
    /\ passLog = <<"StopSyncer", "Patch">>
    /\ err = ""
    /\ store[cur["service"]] # {}
    /\ negStatus[cur["service"]] = {}
    /\ lastPass[cur["service"]].result = "ok"

\* C24: no step of the node worker, and so no node pass, creates or removes
\* a syncer: the table of live syncers is the same after the step as before.
C24_NodePassKeepsSyncers ==
    [][(pc'["node"] # pc["node"] \/ cur'["node"] # cur["node"]) =>
           syncers' = syncers
      ]_vars

\* a node pass has run to its end while a syncer is live
C24_Witness ==
    /\ nodeSyncTracker = now
    /\ pc["node"] = "get"
    /\ syncers # {}

\* a service pass has completed, and the last one did within the last hour
RecentPass ==
    /\ \E k \in ServiceKeys : lastPass[k].result # "none"
    /\ syncTracker >= now - Hour

\* C25 as stated: IsHealthy reports the controller unhealthy exactly when no
\* pass has completed within the last hour.
C25_UnhealthyExactlyWhenNoRecentPass ==
    isHealthy # "none" => (isHealthy = "error" <=> ~RecentPass)

\* C25, amended: IsHealthy reports the controller unhealthy exactly when the
\* time syncTracker holds lies more than an hour back; syncTracker holds the
\* time at which the last service pass returned or, before the first pass,
\* the time NewController gave it; a call of IsHealthy changes nothing in
\* the queues, the syncer table or the trackers.
C25_UnhealthyWhenTrackerOlderThanHour ==
    /\ [](isHealthy # "none" => (isHealthy = "error" <=> syncTracker < now - Hour))
    /\ [][/\ ServicePassReturns => syncTracker' = now
          /\ syncTracker' # syncTracker => ServicePassReturns
          /\ isHealthy' \notin {"none", isHealthy} =>
                UNCHANGED <<cvars, gvars, now, syncTracker, nodeSyncTracker>>
         ]_vars

\* IsHealthy reports unhealthy three time units (an hour and a half) after
\* the last service pass returned
C25_Witness ==
    /\ isHealthy = "error"
    /\ \E k \in ServiceKeys : lastPass[k].result # "none"
    /\ syncTracker = 0
    /\ now = MaxTime

(***************************************************************************)
(* The garbage collector.                                                  *)
(***************************************************************************)
\* the sweep whose start is the i-th entry of the log of the collector
SweepStartsAt(i) == i \in 1..Len(sweeps) /\ sweeps[i].ev = "start"

\* a step in which a sweep starts
SweepStarts ==
    /\ Len(sweeps') = Len(sweeps) + 1
    /\ sweeps'[Len(sweeps')].ev = "start"

\* C26: no sweep starts before one full GC period has elapsed since Run
\* started the workers; a later sweep starts no sooner than one period after
\* the sweep before it has returned; a sweep starts only while the stop
\* signal has not been delivered; the collector's loop ends only by the stop
\* signal, never by the error of a sweep, so that after a sweep with an error
\* the loop waits for the next period.
C26_SweepsOncePerPeriodUntilStop ==
    /\ [](\A i \in 1..Len(sweeps) :
             SweepStartsAt(i) =>
                /\ i > 1
                /\ sweeps[i - 1].ev = IF i = 2 THEN "run" ELSE "end"
                /\ sweeps[i].at >= sweeps[i - 1].at + GcPeriod)
    /\ [](gcPc = "returned" => stopCh)
    /\ [](\A i \in 1..Len(sweeps) :
             (sweeps[i].ev = "end" /\ i = Len(sweeps)) => gcPc \in {"wait", "until", "returned"})
    /\ [][SweepStarts => ~stopCh /\ ~stopCh']_vars

\* a second sweep has started one period after the first returned an error
C26_Witness ==
    /\ Len(sweeps) = 4
    /\ sweeps[3].ev = "end" /\ sweeps[3].err
    /\ SweepStartsAt(4) /\ sweeps[4].at = sweeps[3].at + GcPeriod
    /\ ~stopCh

\* a step in which a sweep returns
SweepEnds ==
    /\ Len(sweeps') = Len(sweeps) + 1
    /\ sweeps'[Len(sweeps')].ev = "end"

\* the service of key k requires no entry (it is deleted or exposes nothing)
\* and the pass that found this has run
PassFoundNothingRequired(k) ==
    /\ \A o \in store[k] : DOMAIN ResolvePortInfoMap(Cfg, k, o, Ingresses, FALSE, TRUE).map = {}
    /\ lastPass[k].result = "ok"
    /\ lastPass[k].ports = {}

\* the groups of the cluster's naming convention named for service k
GroupsOf(groups, k) == {n \in groups : BelongsToCluster(n) /\ n.svc = k}

\* a sweep deletes only groups of the cluster that no live syncer references
SweepDeletesOnlyOrphans == [][negs \ negs' \subseteq GcCandidates(negs, syncers)]_vars

CustomNamesWithIngress(service) ==
    /\ service.NEG.state = "found"
    /\ service.NEG.Ingress
    /\ DOMAIN CustomNames(service.NEG) # {}

\* the worker is about to resolve a service with custom names and ingress mode
ResolvesCustomWithIngress ==
    /\ pc["service"] = "process"
    /\ \E o \in store[cur["service"]] : CustomNamesWithIngress(o)

\* C28: a pass over a service whose exposure annotation enables ingress mode
\* and gives a custom name to an exposed port returns an error from the
\* resolution; no map with the custom-named ports is kept, the status
\* annotation is not written, and no syncer is created or removed.
C28_CustomNamesWithIngressRejected ==
    [][(ResolvesCustomWithIngress /\ pc'["service"] # "process")
          => /\ pc'["service"] = "handleErr"
             /\ err' # ""
             /\ UNCHANGED <<pmap, syncers, negStatus>>]_vars

\* such a pass has returned the error of the invalid configuration while a
\* syncer of the service was live
C28_Witness ==
    /\ pc["service"] = "handleErr"
    /\ err = "invalidConfig"
    /\ store[cur["service"]] = {CustomWithIngress}
    /\ OwnedBy(syncers, cur["service"]) # {}

\* what the resolver returns for the same arguments with mesh-wide mode off
WithoutMesh ==
    ResolvePortInfoMap([resIn.cfg EXCEPT !.enableASM = FALSE], resIn.key, resIn.service,
                       Ingresses, resIn.networkErr, resIn.networkIsDefault)

\* the service has a non-empty selector and its namespace is not on the skip-list
MeshApplies ==
    /\ resIn.service.Selector
    /\ resIn.key \notin resIn.cfg.asmServiceNEGSkipNamespaces

\* the entry mesh-wide mode makes for a declared port
MeshEntry(key, p) ==
    [NegName |-> NegName(key, p), EpType |-> "GCE_VM_IP_PORT", ReadinessGate |-> FALSE]

\* C29: with mesh-wide mode enabled, when the service has a non-empty selector
\* and its namespace is not on the skip-list, a resolution that succeeds
\* returns the entries of the other sources and one entry for every declared
\* port that they do not hold; when the selector is empty or the namespace is
\* on the skip-list, the resolution returns what it returns with mesh-wide mode
\* off, the entries of the other sources only.
C29_MeshAddsEveryDeclaredPort ==
    (resOut.called /\ resIn.cfg.enableASM) =>
        IF MeshApplies
        THEN /\ WithoutMesh.err # "" => resOut.err # ""
             /\ resOut.err = "" =>
                   /\ DOMAIN resOut.map = DOMAIN WithoutMesh.map \cup resIn.service.Ports
                   /\ \A p \in DOMAIN WithoutMesh.map : resOut.map[p] = WithoutMesh.map[p]
                   /\ \A p \in resIn.service.Ports \ DOMAIN WithoutMesh.map :
                         resOut.map[p] = MeshEntry(resIn.key, p)
        ELSE /\ resOut.err = WithoutMesh.err
             /\ resOut.map = WithoutMesh.map

\* mesh-wide mode has added port 443 to the standalone entry of port 80
C29_Witness ==
    /\ resOut.called
    /\ resIn.cfg.enableASM
    /\ MeshApplies
    /\ resOut.err = ""
    /\ DOMAIN WithoutMesh.map = {80}
    /\ DOMAIN resOut.map = {80, 443}
    /\ resOut.map[80].ReadinessGate

\* what the resolver returns for the same arguments with L4 mode off
WithoutL4 ==
    ResolvePortInfoMap([resIn.cfg EXCEPT !.runL4 = FALSE], resIn.key, resIn.service,
                       Ingresses, resIn.networkErr, resIn.networkIsDefault)

\* the node-IP-granular entry of the service
VmIpEntry(key) == [NegName |-> L4NegName(key), EpType |-> "GCE_VM_IP", ReadinessGate |-> FALSE]

\* the result is that of the other sources and the one entry of the service
AddsVmIpEntry ==
    /\ resOut.err = ""
    /\ DOMAIN resOut.map = DOMAIN WithoutL4.map \cup {0}
    /\ resOut.map[0] = VmIpEntry(resIn.key)
    /\ \A p \in DOMAIN WithoutL4.map : resOut.map[p] = WithoutL4.map[p]

\* the result is that of the other sources, without an error
AddsNoEntry ==
    /\ resOut.err = ""
    /\ resOut.map = WithoutL4.map

\* the resolver was called and the sources before L4 mode gave no error
L4StepReached == resOut.called /\ WithoutL4.err = ""

\* C30 as stated: L4 mode contributes exactly one node-IP-granular entry keyed
\* by the service when the controller runs L4, the service wants an internal
\* load balancer and carries the finalizer, or wants a network load balancer
\* on a non-default network, and no load-balancer class is set; otherwise it
\* contributes no entry and the pass does not fail.
C30_L4EntryForNetLBOnOtherNetwork ==
    L4StepReached =>
        IF /\ resIn.cfg.runL4
           /\ \/ resIn.service.WantsILB /\ resIn.service.V2Finalizer
              \/ resIn.service.WantsNetLB /\ ~resIn.networkIsDefault
           /\ ~resIn.service.LoadBalancerClass
        THEN AddsVmIpEntry
        ELSE AddsNoEntry

\* C30, amended: L4 mode contributes exactly one node-IP-granular entry keyed
\* by the service when the controller runs L4, the service wants an internal
\* load balancer and carries the finalizer, or wants a network load balancer
\* on a non-default network and carries the RBS annotation, and no
\* load-balancer class is set; otherwise (L4 not run, finalizer or RBS
\* annotation missing, default network, load-balancer class set) it
\* contributes no entry and the pass does not fail.
C30_L4EntryWhenPreconditionsHold ==
    L4StepReached =>
        IF /\ resIn.cfg.runL4
           /\ \/ resIn.service.WantsILB /\ resIn.service.V2Finalizer
              \/ resIn.service.WantsNetLB /\ ~resIn.networkIsDefault /\ resIn.service.RBS
           /\ ~resIn.service.LoadBalancerClass
        THEN AddsVmIpEntry
        ELSE AddsNoEntry

\* the entry of an internal load balancer with the finalizer, next to the
\* standalone entry of port 80
C30_Witness ==
    /\ resOut.called
    /\ resIn.cfg.runL4
    /\ resIn.service.WantsILB /\ resIn.service.V2Finalizer
    /\ DOMAIN resOut.map = {0, 80}
    /\ resOut.map[0] = VmIpEntry(resIn.key)

(***************************************************************************)
(* Warning events, the start of the workers, retry.                        *)
(***************************************************************************)
\* the errors of the structure or configuration of a service: annotation
\* parse failure, conflicting port merge, custom names with ingress mode,
\* single-stack IPv6 service
StructuralErrors == {"annotation", "merge", "invalidConfig", "ipv6"}

\* handleErr acts on a structural error while the lister has the service
HandlesStructuralError ==
    /\ pc["service"] = "handleErr"
    /\ pc'["service"] = "done"
    /\ err \in StructuralErrors
    /\ store[cur["service"]] # {}

\* C31: when a service pass has failed with a structural or configuration
\* error and the service is in the store, handleErr attaches one warning
\* event to the service, the only warning event of the pass, counts the
\* failure and hands the key to the delaying queue (which drops it only when
\* the queue is shutting down); the worker then calls Done and goes back to
\* Get, it does not return.
C31_StructuralErrorWarnsAndRequeues ==
    /\ [][HandlesStructuralError =>
            LET k == cur["service"]
                f == failures["service"][k]
            IN  /\ events = <<>>
                /\ events' = <<"ProcessServiceFailed">>
                /\ failures'["service"][k] = IF f < MaxFailures THEN f + 1 ELSE f
                /\ failures'["service"][k] > 0
                /\ ~wq["service"].shuttingDown => k \in waiting'["service"]]_vars
    /\ [][(pc["service"] = "done" /\ pc'["service"] # "done")
             => /\ pc'["service"] = "get"
                /\ Len(events) <= 1
                /\ cur["service"] \notin wq'["service"].processing]_vars

\* the pass over a service with custom names and ingress mode has failed a
\* second time; the service has its warning event and the key waits
C31_Witness ==
    /\ pc["service"] = "done"
    /\ err = "invalidConfig"
    /\ events = <<"ProcessServiceFailed">>
    /\ failures["service"][cur["service"]] = 2
    /\ cur["service"] \in waiting["service"]

\* the worker of queue q has taken a key, or waits in Get for one
WorkerStarted(q) == pc[q] \notin {"notstarted", "until", "returned"}

\* a sweep of the collector has started
SweepStarted == \E i \in 1..Len(sweeps) : sweeps[i].ev = "start"

\* C32: a worker calls Get, and so processes a key, only after the caches
\* have synced, and a sweep starts only after that; a worker that has not
\* called Get when the stop signal arrives never does, and the collector then
\* never starts a sweep, so that after a stop signal that arrives before the
\* caches have synced no pass and no sweep ever runs; Run still reaches the
\* end of stop().
C32_NothingRunsBeforeSync ==
    /\ [](\A q \in Queues : WorkerStarted(q) => hasSynced)
    /\ [](SweepStarted => hasSynced)
    /\ []((stopCh /\ ~hasSynced) => (\A q \in Queues : cur[q] = 0) /\ ~SweepStarted)
    /\ [][hasSynced => hasSynced']_vars
    /\ [][\A q \in Queues :
             (stopCh /\ ~WorkerStarted(q)) => ~WorkerStarted(q)']_vars
    /\ [][(stopCh /\ gcPc \in {"notstarted", "sleep", "until"}) => ~SweepStarts]_vars
    /\ (stopCh ~> runPc = "returned")

\* the stop signal arrived before the caches synced: stop() has run, the
\* workers and the collector have returned, the queued keys were not processed
C32_Witness ==
    /\ stopCh
    /\ ~hasSynced
    /\ runPc = "returned"
    /\ \A q \in Queues : pc[q] = "returned" /\ wq[q].queue # <<>>
    /\ gcPc = "returned"

\* C33: syncTracker, which IsHealthy reads, is set to the current time when a
\* service pass or an endpoint pass returns, with or without an error, and by
\* nothing else, so not by a node pass; IsHealthy then reports no error while
\* the last such pass, failed or not, is at most an hour old, and an error
\* once it is more than an hour old, however recent the last node pass is.
C33_OnlyServiceAndEndpointPassesAdvance ==
    /\ [][(ServicePassReturns \/ EndpointPassReturns) => syncTracker' = now]_vars
    /\ [][syncTracker' # syncTracker => (ServicePassReturns \/ EndpointPassReturns)]_vars
    /\ [][NodePassReturns => syncTracker' = syncTracker /\ nodeSyncTracker' = now]_vars
    /\ [](isHealthy # "none" =>
             (isHealthy = "error" <=> syncTracker < now - Hour))
    /\ []((isHealthy # "none" /\ lastPass[1].result = "failed" /\ syncTracker >= now - Hour)
             => isHealthy = "ok")

\* a failed service pass advanced the tracker at time 1; since then more than
\* an hour has passed with node passes only, the last one just now, and
\* IsHealthy reports an error
C33_Witness ==
    /\ isHealthy = "error"
    /\ lastPass[1].result = "failed"
    /\ syncTracker = 1
    /\ now = MaxTime
    /\ nodeSyncTracker = now

\* the queues whose workers do not retry
PlainQueues == {"endpoint", "node"}

\* the pass of the worker of queue q returns
PassReturns(q) == pc[q] = "process" /\ pc'[q] # "process"

\* C34: the endpoint and node workers never call AddRateLimited or Forget:
\* the limiter of their queues counts no failure and no key of theirs waits
\* for a delay; a dequeued key is passed over once and then gets its one
\* Done, whatever happened in the pass, and after it the key is in the queue
\* again only when an event has added it during the pass; only keys of the
\* service queue are counted by a limiter or wait for a delay.
C34_OnlyServiceQueueRetries ==
    /\ [](\A q \in PlainQueues :
             /\ waiting[q] = {}
             /\ \A k \in KeysOf(q) : failures[q][k] = 0)
    /\ [][\A q \in PlainQueues :
             /\ (pc[q] = "get" /\ pc'[q] = "process") =>
                   /\ cur'[q] = Head(wq[q].queue)
                   /\ cur'[q] \in wq'[q].processing
             /\ PassReturns(q) =>
                   /\ pc'[q] = "get"
                   /\ cur[q] \in wq[q].processing
                   /\ cur[q] \notin wq'[q].processing
                   /\ wq'[q] = QDone(wq[q], cur[q])
                   /\ Count(cur[q], wq'[q].queue) =
                         IF cur[q] \in wq[q].dirty THEN 1 ELSE 0]_vars

\* a node pass has returned and its key is neither queued nor waiting, while
\* a key of the service queue has failed and waits for its delay
C34_Witness ==
    /\ nodeSyncTracker = now
    /\ pc["node"] = "get"
    /\ wq["node"].queue = <<>>
    /\ wq["node"].processing = {}
    /\ \E k \in ServiceKeys : failures["service"][k] > 0 /\ k \in waiting["service"]

\* the versions of the Ingress the last notification carried
NotifiedIngresses == ingressEvent.old \cup ingressEvent.cur

\* the last notification was about an Ingress that, in one of its versions,
\* is of a class the controller serves and names no default backend
NotifiedWithoutDefaultBackend ==
    \E ing \in NotifiedIngresses : IsGLBCIngress(ing) /\ ~ing.defaultBackend

\* the service worker is running
ServiceWorkerRuns == pc["service"] \notin {"notstarted", "until"}

\* C35: an Add, a Delete and an Update of a served Ingress without spec
\* default backend (in its old or new version) each lead to a pass for the
\* default-backend service, and a notification about a served Ingress leads
\* to a pass for every service its old or new version references.
C35_IngressEventLeadsToDefaultBackendPass ==
    /\ (ServiceWorkerRuns /\ NotifiedWithoutDefaultBackend
            /\ Cfg.defaultBackendService \notin passedSince)
         ~> (Cfg.defaultBackendService \in passedSince)
    /\ \A k \in ServiceKeys :
         (ServiceWorkerRuns /\ (\E ing \in NotifiedIngresses : IsGLBCIngress(ing))
              /\ k \in gatherIngressServiceKeys(NotifiedIngresses) /\ k \notin passedSince)
           ~> (k \in passedSince)

====
